---- MODULE Spec2Model ----
(***************************************************************************)
(* Model of the content-addressed version-control engine of the            *)
(* merkurial editor (class VersionControl and its KVStore, with the        *)
(* callers in App.tsx that drive it).                                      *)
(*                                                                         *)
(* A node is a TLA+ record with the fields of the TypeScript object; an    *)
(* optional field that is undefined is a field the record does not have.   *)
(* A CID is the record [digest |-> n]: sha256 over the canonical           *)
(* (key-sorted) JSON of n is modelled as collision-free, and a record has  *)
(* no field order, as the canonical JSON has none.  A KVStore is a         *)
(* function from CIDs to nodes.                                            *)
(***************************************************************************)
EXTENDS Integers, Sequences, FiniteSets, TLC

VARIABLES
    sourceOfTruth,     \* KVStore: the durable tier
    workInProgress,    \* KVStore: the working tier
    heap,              \* the Branch objects ever allocated: uuid -> [name, commit]
    branches,          \* sequence of uuids: the live branches
    archivedBranches,  \* sequence of uuids: the archived branches
    defaultBranch,     \* uuid of the default branch
    currentBranch,     \* uuid of the current branch
    workingRootCid,    \* CID of the working root
    now,               \* the wall clock read by new Date()
    last               \* the last call: [op, arg, ret, threw]; arg is the Branch
                       \* argument (a uuid) of checkout, archiveBranch and merge

vars == <<sourceOfTruth, workInProgress, heap, branches, archivedBranches,
          defaultBranch, currentBranch, workingRootCid, now, last>>

-----------------------------------------------------------------------------
(* Bounds *)

MaxClock == 1
MaxCommits == 2
MaxBranches == 2
MaxWip == 2

-----------------------------------------------------------------------------
(* Values *)

\* undefined, as returned by Map.get for an absent key
Missing == [type |-> "undefined"]

\* the value of a call that returns nothing
Void == [void |-> TRUE]

cid(node) == [digest |-> node]

EmptyStore == [id \in {} |-> Missing]

KVput(store, node) == (cid(node) :> node) @@ store

KVget(store, id) == IF id \in DOMAIN store THEN store[id] ELSE Missing

KVhas(store, id) == id \in DOMAIN store

\* a mutant of transferTo: the target is replaced by the receiver's entries
transferToReplacing(store, target) == store

\* every entry of the receiver is set in the target, overwriting
transferTo(store, target) == store @@ target

\* a mutant of resolveIn: only the working tier is looked up
resolveInWorkingTier(wip, sot, id) == KVget(wip, id)

\* resolve against explicit tiers: working tier first, then source-of-truth
resolveIn(wip, sot, id) ==
    IF KVget(wip, id) # Missing THEN KVget(wip, id) ELSE KVget(sot, id)

resolve(id) == resolveIn(workInProgress, sourceOfTruth, id)

-----------------------------------------------------------------------------
(* Node constructors *)

GrammarRoot(content) == [type |-> "grammar_root", content |-> content]

Directory(name, children) ==
    [type |-> "folder", name |-> name, children |-> children]

Document(name, content) ==
    [type |-> "document", name |-> name, content |-> content]

UnnamedDocument(content) == [type |-> "document", content |-> content]

Paragraph == [type |-> "paragraph", content |-> <<>>]

Commit(parents, content, author, timestamp, message) ==
    [type |-> "commit", parents |-> parents, content |-> content,
     author |-> author, timestamp |-> timestamp, message |-> message]

Branch(name, commitCid) == [name |-> name, commit |-> commitCid]

\* the readings new Date() can give: the clock does not run backwards
Clock == {t \in {now, now + 1} : t <= MaxClock}

Commits(store) == {id \in DOMAIN store : store[id].type = "commit"}

initialGrammarRoot == GrammarRoot(<<>>)

\* a mutant of initialCommit: the first commit is authored by the user
initialCommitByUser == Commit(<<>>, cid(initialGrammarRoot), "user", 0, "initial commit")

initialCommit == Commit(<<>>, cid(initialGrammarRoot), "system", 0, "initial commit")

\* the elements of a sequence
Range(seq) == {seq[i] : i \in DOMAIN seq}

Call(op, arg, ret, threw) == [op |-> op, arg |-> arg, ret |-> ret, threw |-> threw]

-----------------------------------------------------------------------------
(* Inputs of the calls *)

DirA == Directory("a", <<>>)
PutNodes == {DirA}

RootNodes == {GrammarRoot(<<>>), GrammarRoot(<<cid(DirA)>>)}

BranchNames == {"default", "feature"}

Messages == {"m"}

Authors == {"alice"}

\* a commit CID that no store ever holds
DanglingCommit == cid(Commit(<<>>, cid(initialGrammarRoot), "nobody", 0, "lost"))

-----------------------------------------------------------------------------
(* Construction *)

Init ==
    /\ sourceOfTruth = KVput(KVput(EmptyStore, initialGrammarRoot), initialCommit)
    /\ workInProgress = EmptyStore
    /\ archivedBranches = <<>>
    /\ heap = (1 :> Branch("default", cid(initialCommit)))
    /\ defaultBranch = 1
    /\ branches = <<1>>
    /\ currentBranch = 1
    /\ workingRootCid = cid(initialGrammarRoot)
    /\ now = 0
    /\ last = Call("constructor", Void, Void, FALSE)

-----------------------------------------------------------------------------
(* Store operations *)

\* a mutant of put: the node is stored in the durable tier
putDurable(node) ==
    /\ sourceOfTruth' = KVput(sourceOfTruth, node)
    /\ last' = Call("put", Void, cid(node), FALSE)
    /\ UNCHANGED <<workInProgress, heap, branches, archivedBranches,
                   defaultBranch, currentBranch, workingRootCid, now>>

put(node) ==
    /\ workInProgress' = KVput(workInProgress, node)
    /\ last' = Call("put", Void, cid(node), FALSE)
    /\ UNCHANGED <<sourceOfTruth, heap, branches, archivedBranches,
                   defaultBranch, currentBranch, workingRootCid, now>>

setWorkingRoot(id) ==
    /\ workingRootCid' = id
    /\ last' = Call("setWorkingRoot", Void, Void, FALSE)
    /\ UNCHANGED <<sourceOfTruth, workInProgress, heap, branches,
                   archivedBranches, defaultBranch, currentBranch, now>>

\* a mutant of setRoot: the root is not stored before it becomes the
\* working root
setRootUnstored(root) ==
    /\ workInProgress' = workInProgress
    /\ workingRootCid' = cid(root)
    /\ last' = Call("setRoot", Void, Void, FALSE)
    /\ UNCHANGED <<sourceOfTruth, heap, branches, archivedBranches,
                   defaultBranch, currentBranch, now>>

setRoot(root) ==
    /\ workInProgress' = KVput(workInProgress, root)
    /\ workingRootCid' = cid(root)
    /\ last' = Call("setRoot", Void, Void, FALSE)
    /\ UNCHANGED <<sourceOfTruth, heap, branches, archivedBranches,
                   defaultBranch, currentBranch, now>>

-----------------------------------------------------------------------------
(* Commit operations *)

\* a mutant of commit: the working tier is folded but not cleared
commitKeepsWip(message, author) ==
    \E ts \in Clock :
        LET folded == transferTo(workInProgress, sourceOfTruth)
            newCommit == Commit(<<heap[currentBranch].commit>>, workingRootCid,
                                author, ts, message)
            commitCid == cid(newCommit)
        IN  /\ sourceOfTruth' = KVput(folded, newCommit)
            /\ workInProgress' = workInProgress
            /\ heap' = [heap EXCEPT ![currentBranch].commit = commitCid]
            /\ now' = ts
            /\ last' = Call("commit", Void, commitCid, FALSE)
            /\ UNCHANGED <<branches, archivedBranches, defaultBranch,
                           currentBranch, workingRootCid>>

\* a mutant of commit: every branch that shared the old head is repointed
commitMovesSharedHeads(message, author) ==
    \E ts \in Clock :
        LET folded == transferTo(workInProgress, sourceOfTruth)
            newCommit == Commit(<<heap[currentBranch].commit>>, workingRootCid,
                                author, ts, message)
            commitCid == cid(newCommit)
        IN  /\ sourceOfTruth' = KVput(folded, newCommit)
            /\ workInProgress' = EmptyStore
            /\ heap' = [b \in DOMAIN heap |->
                          IF heap[b].commit = heap[currentBranch].commit
                          THEN [heap[b] EXCEPT !.commit = commitCid]
                          ELSE heap[b]]
            /\ now' = ts
            /\ last' = Call("commit", Void, commitCid, FALSE)
            /\ UNCHANGED <<branches, archivedBranches, defaultBranch,
                           currentBranch, workingRootCid>>

\* a mutant of commit: the new commit does not name the prior head as parent
commitOrphan(message, author) ==
    \E ts \in Clock :
        LET folded == transferTo(workInProgress, sourceOfTruth)
            newCommit == Commit(<<>>, workingRootCid, author, ts, message)
            commitCid == cid(newCommit)
        IN  /\ sourceOfTruth' = KVput(folded, newCommit)
            /\ workInProgress' = EmptyStore
            /\ heap' = [heap EXCEPT ![currentBranch].commit = commitCid]
            /\ now' = ts
            /\ last' = Call("commit", Void, commitCid, FALSE)
            /\ UNCHANGED <<branches, archivedBranches, defaultBranch,
                           currentBranch, workingRootCid>>

commit(message, author) ==
    \E ts \in Clock :
        LET folded == transferTo(workInProgress, sourceOfTruth)
            newCommit == Commit(<<heap[currentBranch].commit>>, workingRootCid,
                                author, ts, message)
            commitCid == cid(newCommit)
        IN  /\ sourceOfTruth' = KVput(folded, newCommit)
            /\ workInProgress' = EmptyStore
            /\ heap' = [heap EXCEPT ![currentBranch].commit = commitCid]
            /\ now' = ts
            /\ last' = Call("commit", Void, commitCid, FALSE)
            /\ UNCHANGED <<branches, archivedBranches, defaultBranch,
                           currentBranch, workingRootCid>>

\* a mutant of isDirty: the head's CID, not its content, is compared
isDirtyByHead ==
    LET headCommit == resolve(heap[currentBranch].commit)
    IN  IF headCommit = Missing
        THEN [threw |-> TRUE, ret |-> FALSE]
        ELSE [threw |-> FALSE, ret |-> heap[currentBranch].commit # workingRootCid]

\* a mutant of isDirty: the default branch's head is read, not the current one's
isDirtyAgainstDefault ==
    LET headCommit == resolve(heap[defaultBranch].commit)
    IN  IF headCommit = Missing
        THEN [threw |-> TRUE, ret |-> FALSE]
        ELSE [threw |-> FALSE, ret |-> headCommit.content # workingRootCid]

\* isDirty(): [threw, ret]; reading .content of undefined is a TypeError
isDirty ==
    LET headCommit == resolve(heap[currentBranch].commit)
    IN  IF headCommit = Missing
        THEN [threw |-> TRUE, ret |-> FALSE]
        ELSE [threw |-> FALSE, ret |-> headCommit.content # workingRootCid]

-----------------------------------------------------------------------------
(* Branch operations *)

\* a mutant of checkout: the working tier is not discarded
checkoutKeepsWip(branch) ==
    LET headCommit == resolve(heap[branch].commit)
    IN  /\ workInProgress' = workInProgress
        /\ currentBranch' = branch
        /\ IF headCommit = Missing
           THEN /\ workingRootCid' = workingRootCid
                /\ last' = Call("checkout", [uuid |-> branch], Void, TRUE)
           ELSE /\ workingRootCid' = headCommit.content
                /\ last' = Call("checkout", [uuid |-> branch], Void, FALSE)
        /\ UNCHANGED <<sourceOfTruth, heap, branches, archivedBranches,
                       defaultBranch, now>>

checkout(branch) ==
    LET headCommit == resolveIn(EmptyStore, sourceOfTruth, heap[branch].commit)
    IN  /\ workInProgress' = EmptyStore
        /\ currentBranch' = branch
        /\ IF headCommit = Missing
           THEN /\ workingRootCid' = workingRootCid
                /\ last' = Call("checkout", [uuid |-> branch], Void, TRUE)
           ELSE /\ workingRootCid' = headCommit.content
                /\ last' = Call("checkout", [uuid |-> branch], Void, FALSE)
        /\ UNCHANGED <<sourceOfTruth, heap, branches, archivedBranches,
                       defaultBranch, now>>


\* fromCommit is a CID, or NoCommit when the option is not given
NoCommit == [digest |-> Missing]

\* a mutant of createBranch: carried working state is discarded, not folded
createBranchDropsWip(name, fromCommitOption, carryWorkingState) ==
    LET fromCommit == IF fromCommitOption = NoCommit
                      THEN heap[currentBranch].commit
                      ELSE fromCommitOption
        uuid == Cardinality(DOMAIN heap) + 1
    IN  /\ heap' = (uuid :> Branch(name, fromCommit)) @@ heap
        /\ branches' = Append(branches, uuid)
        /\ last' = Call("createBranch", Void, [uuid |-> uuid], FALSE)
        /\ IF carryWorkingState
           THEN /\ sourceOfTruth' = sourceOfTruth
                /\ workInProgress' = EmptyStore
                /\ currentBranch' = uuid
                /\ workingRootCid' = workingRootCid
           ELSE UNCHANGED <<sourceOfTruth, workInProgress, currentBranch,
                            workingRootCid>>
        /\ UNCHANGED <<archivedBranches, defaultBranch, now>>

\* a mutant of createBranch: the new branch always starts at the current head
createBranchAtHead(name, fromCommitOption, carryWorkingState) ==
    LET uuid == Cardinality(DOMAIN heap) + 1
    IN  /\ heap' = (uuid :> Branch(name, heap[currentBranch].commit)) @@ heap
        /\ branches' = Append(branches, uuid)
        /\ last' = Call("createBranch", Void, [uuid |-> uuid], FALSE)
        /\ IF carryWorkingState
           THEN /\ sourceOfTruth' = transferTo(workInProgress, sourceOfTruth)
                /\ workInProgress' = EmptyStore
                /\ currentBranch' = uuid
                /\ workingRootCid' = workingRootCid
           ELSE UNCHANGED <<sourceOfTruth, workInProgress, currentBranch,
                            workingRootCid>>
        /\ UNCHANGED <<archivedBranches, defaultBranch, now>>

createBranch(name, fromCommitOption, carryWorkingState) ==
    LET fromCommit == IF fromCommitOption = NoCommit
                      THEN heap[currentBranch].commit
                      ELSE fromCommitOption
        uuid == Cardinality(DOMAIN heap) + 1
    IN  /\ heap' = (uuid :> Branch(name, fromCommit)) @@ heap
        /\ branches' = Append(branches, uuid)
        /\ last' = Call("createBranch", Void, [uuid |-> uuid], FALSE)
        /\ IF carryWorkingState
           THEN /\ sourceOfTruth' = transferTo(workInProgress, sourceOfTruth)
                /\ workInProgress' = EmptyStore
                /\ currentBranch' = uuid
                /\ workingRootCid' = workingRootCid
           ELSE UNCHANGED <<sourceOfTruth, workInProgress, currentBranch,
                            workingRootCid>>
        /\ UNCHANGED <<archivedBranches, defaultBranch, now>>

\* Array.findIndex: the first index whose element satisfies the test, 0 for -1
findIndex(seq, uuid) ==
    IF \E i \in DOMAIN seq : seq[i] = uuid
    THEN CHOOSE i \in DOMAIN seq :
            /\ seq[i] = uuid
            /\ \A j \in DOMAIN seq : seq[j] = uuid => i <= j
    ELSE 0

\* Array.splice(idx, 1)
splice(seq, idx) ==
    [i \in 1..(Len(seq) - 1) |-> IF i < idx THEN seq[i] ELSE seq[i + 1]]

archiveBranch(branch) ==
    LET idx == findIndex(branches, branch)
    IN  /\ IF idx # 0 /\ heap[branch].name # "default"
           THEN /\ branches' = splice(branches, idx)
                /\ archivedBranches' = Append(archivedBranches, branch)
           ELSE UNCHANGED <<branches, archivedBranches>>
        /\ last' = Call("archiveBranch", [uuid |-> branch], Void, FALSE)
        /\ UNCHANGED <<sourceOfTruth, workInProgress, heap, defaultBranch,
                       currentBranch, workingRootCid, now>>

-----------------------------------------------------------------------------
(* Merge *)

\* A JavaScript Map: a sequence of [key, value] in order of first insertion
MapSet(map, key, value) ==
    IF \E i \in DOMAIN map : map[i].key = key
    THEN [i \in DOMAIN map |->
            IF map[i].key = key THEN [key |-> key, value |-> value] ELSE map[i]]
    ELSE Append(map, [key |-> key, value |-> value])

MapHas(map, key) == \E i \in DOMAIN map : map[i].key = key

MapGet(map, key) ==
    IF MapHas(map, key)
    THEN map[CHOOSE i \in DOMAIN map : map[i].key = key].value
    ELSE Missing

\* node.name is truthy: present and not the empty string
HasName(node) == "name" \in DOMAIN node /\ node.name # ""

\* (node as any).children || []
ChildrenOf(node) == IF "children" \in DOMAIN node THEN node.children ELSE <<>>

\* the name a child is keyed by in mergeDirectories
ChildName(child) ==
    IF child.type = "folder" \/ HasName(child) THEN child.name ELSE "untitled"

\* the name -> CID map of the top-level directories of a root
RECURSIVE DirsByName(_, _, _, _)
DirsByName(ids, wip, sot, map) ==
    IF ids = <<>> THEN map
    ELSE LET dir == resolveIn(wip, sot, Head(ids))
         IN  DirsByName(Tail(ids), wip, sot,
                        IF dir # Missing /\ HasName(dir)
                        THEN MapSet(map, dir.name, Head(ids))
                        ELSE map)

\* the name -> CID map of the children of a directory
RECURSIVE ChildrenByName(_, _, _, _)
ChildrenByName(ids, wip, sot, map) ==
    IF ids = <<>> THEN map
    ELSE LET child == resolveIn(wip, sot, Head(ids))
         IN  ChildrenByName(Tail(ids), wip, sot,
                            IF child # Missing
                            THEN MapSet(map, ChildName(child), Head(ids))
                            ELSE map)

\* the entries of the source map whose names were not processed
RECURSIVE SourceOnly(_, _)
SourceOnly(sourceMap, currentMap) ==
    IF sourceMap = <<>> THEN <<>>
    ELSE (IF MapHas(currentMap, Head(sourceMap).key)
          THEN <<>>
          ELSE <<Head(sourceMap).value>>) \o SourceOnly(Tail(sourceMap), currentMap)

\* a mutant of resolveConflict: the current side wins
resolveConflictCurrentWins(currentChildCid, sourceChildCid) == currentChildCid

\* "Conflict - source wins": the CID pushed for a name on both sides whose
\* children are not both folders
resolveConflict(currentChildCid, sourceChildCid) == sourceChildCid

RECURSIVE mergeDirectories(_, _, _, _)
RECURSIVE MergeChildren(_, _, _, _, _)

\* the loop over currentChildren: [list, sot] with the merged CIDs so far and
\* the source-of-truth tier after the puts of the nested merges
MergeChildren(entries, sourceChildren, wip, sot, list) ==
    IF entries = <<>> THEN [list |-> list, sot |-> sot]
    ELSE LET name == Head(entries).key
             currentChildCid == Head(entries).value
             sourceChildCid == MapGet(sourceChildren, name)
         IN  IF MapHas(sourceChildren, name)
             THEN LET currentChild == resolveIn(wip, sot, currentChildCid)
                      sourceChild == resolveIn(wip, sot, sourceChildCid)
                  IN  IF currentChild.type = "folder" /\ sourceChild.type = "folder"
                      THEN LET merged == mergeDirectories(currentChildCid,
                                                          sourceChildCid, wip, sot)
                           IN  MergeChildren(Tail(entries), sourceChildren, wip,
                                             merged.sot, Append(list, merged.cid))
                      ELSE MergeChildren(Tail(entries), sourceChildren, wip, sot,
                                         Append(list, resolveConflict(currentChildCid,
                                                                      sourceChildCid)))
             ELSE MergeChildren(Tail(entries), sourceChildren, wip, sot,
                                Append(list, currentChildCid))

\* a mutant of mergeDirectories: the merged directory is not put into
\* source-of-truth
mergeDirectoriesNotStored(currentCid, sourceCid, wip, sot) ==
    LET current == resolveIn(wip, sot, currentCid)
        source == resolveIn(wip, sot, sourceCid)
    IN  IF current = Missing THEN [cid |-> sourceCid, sot |-> sot]
        ELSE IF source = Missing THEN [cid |-> currentCid, sot |-> sot]
        ELSE LET currentChildren == ChildrenByName(ChildrenOf(current), wip, sot, <<>>)
                 sourceChildren == ChildrenByName(ChildrenOf(source), wip, sot, <<>>)
                 kept == MergeChildren(currentChildren, sourceChildren, wip, sot, <<>>)
                 mergedChildren == kept.list \o SourceOnly(sourceChildren, currentChildren)
                 mergedDir == IF "name" \in DOMAIN current
                              THEN Directory(current.name, mergedChildren)
                              ELSE [type |-> "folder", children |-> mergedChildren]
             IN  [cid |-> cid(mergedDir), sot |-> kept.sot]

\* [cid, sot]: the CID returned and the source-of-truth tier afterwards
mergeDirectories(currentCid, sourceCid, wip, sot) ==
    LET current == resolveIn(wip, sot, currentCid)
        source == resolveIn(wip, sot, sourceCid)
    IN  IF current = Missing THEN [cid |-> sourceCid, sot |-> sot]
        ELSE IF source = Missing THEN [cid |-> currentCid, sot |-> sot]
        ELSE LET currentChildren == ChildrenByName(ChildrenOf(current), wip, sot, <<>>)
                 sourceChildren == ChildrenByName(ChildrenOf(source), wip, sot, <<>>)
                 kept == MergeChildren(currentChildren, sourceChildren, wip, sot, <<>>)
                 mergedChildren == kept.list \o SourceOnly(sourceChildren, currentChildren)
                 mergedDir == IF "name" \in DOMAIN current
                              THEN Directory(current.name, mergedChildren)
                              ELSE [type |-> "folder", children |-> mergedChildren]
             IN  [cid |-> cid(mergedDir), sot |-> KVput(kept.sot, mergedDir)]

\* the loop over currentDirs of mergeGrammarRoots
RECURSIVE MergeDirs(_, _, _, _, _)
MergeDirs(entries, sourceDirs, wip, sot, list) ==
    IF entries = <<>> THEN [list |-> list, sot |-> sot]
    ELSE LET name == Head(entries).key
             currentDirCid == Head(entries).value
         IN  IF MapHas(sourceDirs, name)
             THEN LET merged == mergeDirectories(currentDirCid,
                                                 MapGet(sourceDirs, name), wip, sot)
                  IN  MergeDirs(Tail(entries), sourceDirs, wip, merged.sot,
                                Append(list, merged.cid))
             ELSE MergeDirs(Tail(entries), sourceDirs, wip, sot,
                            Append(list, currentDirCid))

\* a mutant of mergeGrammarRoots: a side that does not resolve is taken as
\* an empty root
mergeGrammarRootsEmptyForMissing(currentCid, sourceCid, wip, sot) ==
    LET current == IF resolveIn(wip, sot, currentCid) = Missing
                   THEN GrammarRoot(<<>>) ELSE resolveIn(wip, sot, currentCid)
        source == IF resolveIn(wip, sot, sourceCid) = Missing
                  THEN GrammarRoot(<<>>) ELSE resolveIn(wip, sot, sourceCid)
        currentDirs == DirsByName(current.content, wip, sot, <<>>)
        sourceDirs == DirsByName(source.content, wip, sot, <<>>)
        kept == MergeDirs(currentDirs, sourceDirs, wip, sot, <<>>)
        mergedDirCids == kept.list \o SourceOnly(sourceDirs, currentDirs)
        mergedRoot == GrammarRoot(mergedDirCids)
    IN  [cid |-> cid(mergedRoot), sot |-> KVput(kept.sot, mergedRoot)]

\* [cid, sot]: the CID returned and the source-of-truth tier afterwards
mergeGrammarRoots(currentCid, sourceCid, wip, sot) ==
    LET current == resolveIn(wip, sot, currentCid)
        source == resolveIn(wip, sot, sourceCid)
    IN  IF current = Missing /\ source = Missing
        THEN [cid |-> cid(GrammarRoot(<<>>)), sot |-> KVput(sot, GrammarRoot(<<>>))]
        ELSE IF current = Missing THEN [cid |-> sourceCid, sot |-> sot]
        ELSE IF source = Missing THEN [cid |-> currentCid, sot |-> sot]
        ELSE LET currentDirs == DirsByName(current.content, wip, sot, <<>>)
                 sourceDirs == DirsByName(source.content, wip, sot, <<>>)
                 kept == MergeDirs(currentDirs, sourceDirs, wip, sot, <<>>)
                 mergedDirCids == kept.list \o SourceOnly(sourceDirs, currentDirs)
                 mergedRoot == GrammarRoot(mergedDirCids)
             IN  [cid |-> cid(mergedRoot), sot |-> KVput(kept.sot, mergedRoot)]

\* a mutant of isNoopMerge: only merging a branch into itself returns early
isNoopMergeSameBranchOnly(sourceBranch) == sourceBranch = currentBranch

\* the two early returns of merge
isNoopMerge(sourceBranch) ==
    \/ sourceBranch = currentBranch
    \/ heap[currentBranch].commit = heap[sourceBranch].commit

\* a mutant of mergeCommitNode: the parents in the opposite order
mergeCommitNodeSwapped(currentHead, sourceHead, mergedContent, ts, sourceName, currentName) ==
    Commit(<<sourceHead, currentHead>>, mergedContent, "merge", ts,
           "Merge '" \o sourceName \o "' into '" \o currentName \o "'")

\* a mutant of mergeCommitNode: the merge commit names no parent
mergeCommitNodeRootless(currentHead, sourceHead, mergedContent, ts, sourceName, currentName) ==
    Commit(<<>>, mergedContent, "merge", ts,
           "Merge '" \o sourceName \o "' into '" \o currentName \o "'")

mergeCommitNode(currentHead, sourceHead, mergedContent, ts, sourceName, currentName) ==
    Commit(<<currentHead, sourceHead>>, mergedContent, "merge", ts,
           "Merge '" \o sourceName \o "' into '" \o currentName \o "'")

\* a mutant of merge: the working tier is cleared before the head commits
\* are resolved, as checkout does
mergeClearsFirst(sourceBranch) ==
    IF isNoopMerge(sourceBranch)
    THEN /\ last' = Call("merge", [uuid |-> sourceBranch], Void, FALSE)
         /\ UNCHANGED <<sourceOfTruth, workInProgress, heap, branches,
                        archivedBranches, defaultBranch, currentBranch,
                        workingRootCid, now>>
    ELSE LET currentCommit == resolve(heap[currentBranch].commit)
             sourceCommit == resolve(heap[sourceBranch].commit)
         IN  IF currentCommit = Missing \/ sourceCommit = Missing
             THEN /\ last' = Call("merge", [uuid |-> sourceBranch], Void, TRUE)
                  /\ workInProgress' = EmptyStore
                  /\ UNCHANGED <<sourceOfTruth, heap, branches,
                                 archivedBranches, defaultBranch, currentBranch,
                                 workingRootCid, now>>
             ELSE \E ts \in Clock :
                    LET merged == mergeGrammarRoots(currentCommit.content,
                                                    sourceCommit.content,
                                                    workInProgress, sourceOfTruth)
                        mergeCommit ==
                            mergeCommitNode(heap[currentBranch].commit,
                                            heap[sourceBranch].commit,
                                            merged.cid, ts,
                                            heap[sourceBranch].name,
                                            heap[currentBranch].name)
                    IN  /\ sourceOfTruth' = KVput(merged.sot, mergeCommit)
                        /\ heap' = [heap EXCEPT ![currentBranch].commit = cid(mergeCommit)]
                        /\ workingRootCid' = merged.cid
                        /\ workInProgress' = EmptyStore
                        /\ now' = ts
                        /\ last' = Call("merge", [uuid |-> sourceBranch], Void, FALSE)
                        /\ UNCHANGED <<branches, archivedBranches, defaultBranch,
                                       currentBranch>>

\* a mutant of merge: the source branch is moved to the merge commit as well
mergeMovesSource(sourceBranch) ==
    IF isNoopMerge(sourceBranch)
    THEN /\ last' = Call("merge", [uuid |-> sourceBranch], Void, FALSE)
         /\ UNCHANGED <<sourceOfTruth, workInProgress, heap, branches,
                        archivedBranches, defaultBranch, currentBranch,
                        workingRootCid, now>>
    ELSE LET currentCommit == resolve(heap[currentBranch].commit)
             sourceCommit == resolve(heap[sourceBranch].commit)
         IN  IF currentCommit = Missing \/ sourceCommit = Missing
             THEN /\ last' = Call("merge", [uuid |-> sourceBranch], Void, TRUE)
                  /\ UNCHANGED <<sourceOfTruth, workInProgress, heap, branches,
                                 archivedBranches, defaultBranch, currentBranch,
                                 workingRootCid, now>>
             ELSE \E ts \in Clock :
                    LET merged == mergeGrammarRoots(currentCommit.content,
                                                    sourceCommit.content,
                                                    workInProgress, sourceOfTruth)
                        mergeCommit ==
                            mergeCommitNode(heap[currentBranch].commit,
                                            heap[sourceBranch].commit,
                                            merged.cid, ts,
                                            heap[sourceBranch].name,
                                            heap[currentBranch].name)
                    IN  /\ sourceOfTruth' = KVput(merged.sot, mergeCommit)
                        /\ heap' = [b \in DOMAIN heap |->
                                      IF b \in {currentBranch, sourceBranch}
                                      THEN [heap[b] EXCEPT !.commit = cid(mergeCommit)]
                                      ELSE heap[b]]
                        /\ workingRootCid' = merged.cid
                        /\ workInProgress' = EmptyStore
                        /\ now' = ts
                        /\ last' = Call("merge", [uuid |-> sourceBranch], Void, FALSE)
                        /\ UNCHANGED <<branches, archivedBranches, defaultBranch,
                                       currentBranch>>

\* a mutant of merge: a source whose head has the current head as a parent
\* is fast-forwarded to, without a merge commit
mergeFastForwards(sourceBranch) ==
    IF isNoopMerge(sourceBranch)
    THEN /\ last' = Call("merge", [uuid |-> sourceBranch], Void, FALSE)
         /\ UNCHANGED <<sourceOfTruth, workInProgress, heap, branches,
                        archivedBranches, defaultBranch, currentBranch,
                        workingRootCid, now>>
    ELSE LET currentCommit == resolve(heap[currentBranch].commit)
             sourceCommit == resolve(heap[sourceBranch].commit)
         IN  IF currentCommit = Missing \/ sourceCommit = Missing
             THEN /\ last' = Call("merge", [uuid |-> sourceBranch], Void, TRUE)
                  /\ UNCHANGED <<sourceOfTruth, workInProgress, heap, branches,
                                 archivedBranches, defaultBranch, currentBranch,
                                 workingRootCid, now>>
             ELSE IF heap[currentBranch].commit \in Range(sourceCommit.parents)
             THEN /\ heap' = [heap EXCEPT ![currentBranch].commit =
                                              heap[sourceBranch].commit]
                  /\ workingRootCid' = sourceCommit.content
                  /\ workInProgress' = EmptyStore
                  /\ last' = Call("merge", [uuid |-> sourceBranch], Void, FALSE)
                  /\ UNCHANGED <<sourceOfTruth, branches, archivedBranches,
                                 defaultBranch, currentBranch, now>>
             ELSE \E ts \in Clock :
                    LET merged == mergeGrammarRoots(currentCommit.content,
                                                    sourceCommit.content,
                                                    workInProgress, sourceOfTruth)
                        mergeCommit ==
                            mergeCommitNode(heap[currentBranch].commit,
                                            heap[sourceBranch].commit,
                                            merged.cid, ts,
                                            heap[sourceBranch].name,
                                            heap[currentBranch].name)
                    IN  /\ sourceOfTruth' = KVput(merged.sot, mergeCommit)
                        /\ heap' = [heap EXCEPT ![currentBranch].commit = cid(mergeCommit)]
                        /\ workingRootCid' = merged.cid
                        /\ workInProgress' = EmptyStore
                        /\ now' = ts
                        /\ last' = Call("merge", [uuid |-> sourceBranch], Void, FALSE)
                        /\ UNCHANGED <<branches, archivedBranches, defaultBranch,
                                       currentBranch>>

merge(sourceBranch) ==
    IF isNoopMerge(sourceBranch)
    THEN /\ last' = Call("merge", [uuid |-> sourceBranch], Void, FALSE)
         /\ UNCHANGED <<sourceOfTruth, workInProgress, heap, branches,
                        archivedBranches, defaultBranch, currentBranch,
                        workingRootCid, now>>
    ELSE LET currentCommit == resolve(heap[currentBranch].commit)
             sourceCommit == resolve(heap[sourceBranch].commit)
         IN  IF currentCommit = Missing \/ sourceCommit = Missing
             THEN /\ last' = Call("merge", [uuid |-> sourceBranch], Void, TRUE)
                  /\ UNCHANGED <<sourceOfTruth, workInProgress, heap, branches,
                                 archivedBranches, defaultBranch, currentBranch,
                                 workingRootCid, now>>
             ELSE \E ts \in Clock :
                    LET merged == mergeGrammarRoots(currentCommit.content,
                                                    sourceCommit.content,
                                                    workInProgress, sourceOfTruth)
                        mergeCommit ==
                            mergeCommitNode(heap[currentBranch].commit,
                                            heap[sourceBranch].commit,
                                            merged.cid, ts,
                                            heap[sourceBranch].name,
                                            heap[currentBranch].name)
                    IN  /\ sourceOfTruth' = KVput(merged.sot, mergeCommit)
                        /\ heap' = [heap EXCEPT ![currentBranch].commit = cid(mergeCommit)]
                        /\ workingRootCid' = merged.cid
                        /\ workInProgress' = EmptyStore
                        /\ now' = ts
                        /\ last' = Call("merge", [uuid |-> sourceBranch], Void, FALSE)
                        /\ UNCHANGED <<branches, archivedBranches, defaultBranch,
                                       currentBranch>>

-----------------------------------------------------------------------------
(* Tree mutation helpers *)

ReplaceIn(list, oldCid, newCid) ==
    [i \in DOMAIN list |-> IF list[i] = oldCid THEN newCid ELSE list[i]]

\* The entries of the object itself are rewritten: a value equal to oldCid,
\* and the items of an array value equal to oldCid.  CIDs are strings, so
\* nothing is followed into the nodes they name.
replaceInTree(node, oldCid, newCid) ==
    LET withContent ==
            IF "content" \in DOMAIN node
            THEN IF node.type = "commit"
                 THEN [node EXCEPT !.content = IF @ = oldCid THEN newCid ELSE @]
                 ELSE [node EXCEPT !.content = ReplaceIn(@, oldCid, newCid)]
            ELSE node
        withChildren ==
            IF "children" \in DOMAIN withContent
            THEN [withContent EXCEPT !.children = ReplaceIn(@, oldCid, newCid)]
            ELSE withContent
    IN  IF "parents" \in DOMAIN withChildren
        THEN [withChildren EXCEPT !.parents = ReplaceIn(@, oldCid, newCid)]
        ELSE withChildren

\* updateNode on explicit state: the working tier and working root it leaves
updateNodeIn(wip, sot, rootCid, oldCid, newNode) ==
    LET newCid == cid(newNode)
        stored == KVput(wip, newNode)
        root == resolveIn(stored, sot, rootCid)
    IN  IF root # Missing
        THEN LET newRoot == replaceInTree(root, oldCid, newCid)
             IN  [workInProgress |-> KVput(stored, newRoot),
                  workingRootCid |-> cid(newRoot)]
        ELSE [workInProgress |-> stored, workingRootCid |-> rootCid]

updateNode(oldCid, newNode) ==
    LET updated == updateNodeIn(workInProgress, sourceOfTruth, workingRootCid,
                                oldCid, newNode)
    IN  /\ workInProgress' = updated.workInProgress
        /\ workingRootCid' = updated.workingRootCid
        /\ last' = Call("updateNode", [oldCid |-> oldCid], cid(newNode), FALSE)
        /\ UNCHANGED <<sourceOfTruth, heap, branches, archivedBranches,
                       defaultBranch, currentBranch, now>>

-----------------------------------------------------------------------------

Next ==
    \/ \E node \in PutNodes :
          /\ Cardinality(DOMAIN workInProgress) < MaxWip
          /\ put(node)
    \/ \E root \in RootNodes :
          /\ Cardinality(DOMAIN workInProgress) < MaxWip
          /\ setRoot(root)
    \/ \E root \in RootNodes : setWorkingRoot(cid(root))
    \/ \E message \in Messages, author \in Authors :
          /\ Cardinality(Commits(sourceOfTruth)) <= MaxCommits
          /\ commit(message, author)
    \/ \E branch \in DOMAIN heap : checkout(branch)
    \/ \E name \in BranchNames, carry \in BOOLEAN,
          from \in {NoCommit, DanglingCommit} \cup Commits(sourceOfTruth) :
          /\ Cardinality(DOMAIN heap) < MaxBranches
          /\ createBranch(name, from, carry)
    \/ \E branch \in DOMAIN heap : archiveBranch(branch)
    \/ \E sourceBranch \in DOMAIN heap :
          /\ Cardinality(Commits(sourceOfTruth)) <= MaxCommits
          /\ merge(sourceBranch)

Spec == Init /\ [][Next]_vars

-----------------------------------------------------------------------------
(* The merge on trees: two branches whose head commits hold two trees *)

MaxDirs == 2

DocX1 == Document("x", <<>>)
DocX2 == Document("x", <<cid(Paragraph)>>)
DocY == Document("y", <<>>)
DocU == UnnamedDocument(<<>>)

SubX1 == Directory("s", <<cid(DocX1)>>)
SubX2 == Directory("s", <<cid(DocX2)>>)
SubY == Directory("s", <<cid(DocY)>>)
FolderX == Directory("x", <<>>)

\* the top-level directories the roots are built from
TopDirs ==
    { Directory("a", <<cid(DocX1)>>),
      Directory("a", <<cid(DocX2), cid(DocU)>>),
      Directory("a", <<cid(SubX1), cid(DocY)>>),
      Directory("a", <<cid(SubX2)>>),
      Directory("a", <<cid(FolderX), cid(SubY)>>),
      Directory("a", <<cid(DocX1), cid(DocX2)>>),
      Directory("b", <<cid(DocY)>>),
      Directory("", <<cid(DocX1)>>) }

SeqsUpTo(S, n) == UNION {[1..k -> S] : k \in 0..n}

MergeRoots == {GrammarRoot(dirs) : dirs \in SeqsUpTo({cid(d) : d \in TopDirs}, MaxDirs)}

\* the CIDs a node refers to
Refs(node) ==
    (IF "children" \in DOMAIN node
     THEN {node.children[i] : i \in DOMAIN node.children} ELSE {})
    \cup (IF "content" \in DOMAIN node /\ node.type # "commit"
          THEN {node.content[i] : i \in DOMAIN node.content} ELSE {})

\* a tree as its caller built it: the node and the nodes below it
RECURSIVE Closure(_)
Closure(node) == {node} \cup UNION {Closure(ref.digest) : ref \in Refs(node)}

\* the store after a put of each of the nodes
StoreOf(nodes) == [id \in {cid(node) : node \in nodes} |-> id.digest]

\* The engine after: the trees put, setRoot(currentRoot), commit on default,
\* createBranch("feature", {fromCommit: the initial commit}), checkout of it,
\* setRoot(sourceRoot), commit, checkout of default.
MergeInit ==
    \E currentRoot \in MergeRoots, sourceRoot \in MergeRoots :
        LET currentHead == Commit(<<cid(initialCommit)>>, cid(currentRoot), "alice", 0, "m")
            sourceHead == Commit(<<cid(initialCommit)>>, cid(sourceRoot), "alice", 0, "m")
        IN  /\ sourceOfTruth = StoreOf(Closure(currentRoot) \cup Closure(sourceRoot)
                                       \cup {initialGrammarRoot, initialCommit,
                                             currentHead, sourceHead})
            /\ workInProgress = EmptyStore
            /\ archivedBranches = <<>>
            /\ heap = (1 :> Branch("default", cid(currentHead)))
                      @@ (2 :> Branch("feature", cid(sourceHead)))
            /\ defaultBranch = 1
            /\ branches = <<1, 2>>
            /\ currentBranch = 1
            /\ workingRootCid = cid(currentRoot)
            /\ now = 0
            /\ last = Call("checkout", [uuid |-> 1], Void, FALSE)

MergeNext ==
    \/ \E sourceBranch \in DOMAIN heap :
          /\ Cardinality(Commits(sourceOfTruth)) <= MaxCommits + 1
          /\ merge(sourceBranch)
    \/ \E branch \in DOMAIN heap : checkout(branch)

MergeSpec == MergeInit /\ [][MergeNext]_vars

-----------------------------------------------------------------------------
(* Editing the working tree: updateNode and the App handlers that call it *)

MaxEdited == 3

EditNames == {"n"}

\* the nodes updateNode is given
EditNodes ==
    { DocX2, SubX2,
      Directory("a", <<cid(DocX2)>>),
      Directory("a", <<cid(SubX2), cid(DocY)>>) }

\* the CIDs of the tree below a CID, the CID itself included
RECURSIVE ReachableIn(_, _, _)
ReachableIn(wip, sot, id) ==
    {id} \cup UNION {ReachableIn(wip, sot, ref) : ref \in Refs(resolveIn(wip, sot, id))}

\* the directories the tree view shows: those below the working root
ShownDirectories ==
    {id \in ReachableIn(workInProgress, sourceOfTruth, workingRootCid) :
        resolve(id).type = "folder"}

newDir(name) == Directory(name, <<>>)

newDoc(name, createdAt) ==
    [type |-> "document", name |-> name, createdAt |-> createdAt, content |-> <<>>]

\* { ...parent, children: [...parent.children, childCid] }
updatedParent(parent, childCid) ==
    [parent EXCEPT !.children = Append(@, childCid)]

handleAddDirectory(parentCid, name) ==
    LET parent == resolve(parentCid)
    IN  IF parent = Missing
        THEN /\ last' = Call("handleAddDirectory", [oldCid |-> parentCid], Void, FALSE)
             /\ UNCHANGED <<sourceOfTruth, workInProgress, heap, branches,
                            archivedBranches, defaultBranch, currentBranch,
                            workingRootCid, now>>
        ELSE LET updated ==
                     updateNodeIn(KVput(workInProgress, newDir(name)), sourceOfTruth,
                                  workingRootCid, parentCid,
                                  updatedParent(parent, cid(newDir(name))))
             IN  /\ workInProgress' = updated.workInProgress
                 /\ workingRootCid' = updated.workingRootCid
                 /\ last' = Call("handleAddDirectory", [oldCid |-> parentCid],
                                 cid(newDir(name)), FALSE)
                 /\ UNCHANGED <<sourceOfTruth, heap, branches, archivedBranches,
                                defaultBranch, currentBranch, now>>

handleAddDocument(parentCid, name) ==
    LET parent == resolve(parentCid)
    IN  IF parent = Missing
        THEN /\ last' = Call("handleAddDocument", [oldCid |-> parentCid], Void, FALSE)
             /\ UNCHANGED <<sourceOfTruth, workInProgress, heap, branches,
                            archivedBranches, defaultBranch, currentBranch,
                            workingRootCid, now>>
        ELSE \E createdAt \in Clock :
                LET updated ==
                        updateNodeIn(KVput(workInProgress, newDoc(name, createdAt)),
                                     sourceOfTruth, workingRootCid, parentCid,
                                     updatedParent(parent, cid(newDoc(name, createdAt))))
                IN  /\ workInProgress' = updated.workInProgress
                    /\ workingRootCid' = updated.workingRootCid
                    /\ now' = createdAt
                    /\ last' = Call("handleAddDocument", [oldCid |-> parentCid],
                                    cid(newDoc(name, createdAt)), FALSE)
                    /\ UNCHANGED <<sourceOfTruth, heap, branches, archivedBranches,
                                   defaultBranch, currentBranch>>

\* The engine after: the tree put, setRoot(root), commit("m", "alice").
EditInit ==
    \E root \in MergeRoots :
        LET head == Commit(<<cid(initialCommit)>>, cid(root), "alice", 0, "m")
        IN  /\ sourceOfTruth = StoreOf(Closure(root)
                                       \cup {initialGrammarRoot, initialCommit, head})
            /\ workInProgress = EmptyStore
            /\ archivedBranches = <<>>
            /\ heap = (1 :> Branch("default", cid(head)))
            /\ defaultBranch = 1
            /\ branches = <<1>>
            /\ currentBranch = 1
            /\ workingRootCid = cid(root)
            /\ now = 0
            /\ last = Call("commit", Void, cid(head), FALSE)

EditNext ==
    /\ Cardinality(DOMAIN workInProgress) < MaxEdited
    /\ \/ \E oldCid \in ReachableIn(workInProgress, sourceOfTruth, workingRootCid),
             newNode \in EditNodes :
             updateNode(oldCid, newNode)
       \/ \E parentCid \in ShownDirectories, name \in EditNames :
             handleAddDirectory(parentCid, name)
       \/ \E parentCid \in ShownDirectories, name \in EditNames :
             handleAddDocument(parentCid, name)

EditSpec == EditInit /\ [][EditNext]_vars

-----------------------------------------------------------------------------
(* The store seen through put and resolve *)

\* the nodes put is given
StoreNodes == {DirA, DocX1, GrammarRoot(<<cid(DirA)>>)}

\* the CIDs resolve is asked for: of nodes put or not, held in one tier, in
\* both or in none
ResolveCids ==
    {cid(node) : node \in StoreNodes}
    \cup {cid(initialGrammarRoot), cid(initialCommit), DanglingCommit}

\* a call of resolve(id) by a caller of the engine
resolveCall(id) ==
    /\ last' = Call("resolve", [cid |-> id], resolve(id), FALSE)
    /\ UNCHANGED <<sourceOfTruth, workInProgress, heap, branches,
                   archivedBranches, defaultBranch, currentBranch,
                   workingRootCid, now>>

StoreNext ==
    \/ \E node \in StoreNodes : put(node)
    \/ \E message \in Messages, author \in Authors :
          /\ Cardinality(Commits(sourceOfTruth)) <= MaxCommits
          /\ commit(message, author)
    \/ \E id \in ResolveCids : resolveCall(id)

StoreSpec == Init /\ [][StoreNext]_vars

-----------------------------------------------------------------------------
(* A session: a folder, a document in it, a branch, an edit, a merge back *)

Text(value) == [type |-> "text", value |-> value]

ParagraphOf(content) == [type |-> "paragraph", content |-> content]

\* the editor's value: a list of paragraphs, each a list of plain texts
SlateValues ==
    { <<<<"milk">>>>, <<<<"eggs">>>>, <<<<"milk">>, <<"eggs">>>>, <<<<"milk", "eggs">>>> }

\* slateChildrenToInlineNodes, for children that are unmarked texts
slateChildrenToInlineNodes(children) ==
    [i \in DOMAIN children |-> cid(Text(children[i]))]

\* slateElementToBlockNode, for paragraph elements
slateElementToBlockNode(element) == ParagraphOf(slateChildrenToInlineNodes(element))

\* the document slateToDocument builds from the editor's value
slateToDocument(descendants, existingDoc, createdAt) ==
    LET document ==
            [type |-> "document",
             createdAt |-> IF "createdAt" \in DOMAIN existingDoc
                           THEN existingDoc.createdAt ELSE createdAt,
             content |-> [i \in DOMAIN descendants |->
                             cid(slateElementToBlockNode(descendants[i]))]]
    IN  IF "name" \in DOMAIN existingDoc
        THEN [name |-> existingDoc.name] @@ document
        ELSE document

RECURSIVE replaceInDirectory(_, _, _, _, _)
RECURSIVE replaceInChildren(_, _, _, _, _, _, _)

\* the step of dir.children.map(...) at a child that is a folder: newChild is
\* what replaceInDirectory made of it
replaceInFolderChild(children, oldCid, newCid, sot, list, changed, newChild) ==
    IF newChild.changed
    THEN replaceInChildren(Tail(children), oldCid, newCid,
                           KVput(newChild.wip, newChild.dir), sot,
                           Append(list, cid(newChild.dir)), TRUE)
    ELSE replaceInChildren(Tail(children), oldCid, newCid, newChild.wip, sot,
                           Append(list, Head(children)), changed)

\* dir.children.map(...): [children, changed, wip], with the new child CIDs so
\* far in list and the working tier after the puts so far
replaceInChildren(children, oldCid, newCid, wip, sot, list, changed) ==
    IF children = <<>>
    THEN [children |-> list, changed |-> changed, wip |-> wip]
    ELSE IF Head(children) = oldCid
    THEN replaceInChildren(Tail(children), oldCid, newCid, wip, sot,
                           Append(list, newCid), TRUE)
    ELSE IF resolveIn(wip, sot, Head(children)) # Missing
            /\ resolveIn(wip, sot, Head(children)).type = "folder"
    THEN replaceInFolderChild(children, oldCid, newCid, sot, list, changed,
                              replaceInDirectory(resolveIn(wip, sot, Head(children)),
                                                 oldCid, newCid, wip, sot))
    ELSE replaceInChildren(Tail(children), oldCid, newCid, wip, sot,
                           Append(list, Head(children)), changed)

\* what replaceInDirectory returns, given the mapped children
replacedDirectory(dir, mapped) ==
    [dir |-> IF mapped.changed THEN [dir EXCEPT !.children = mapped.children] ELSE dir,
     changed |-> mapped.changed,
     wip |-> mapped.wip]

\* replaceInDirectory of replaceDocumentCidInRoot: [dir, changed, wip], the
\* directory itself when nothing below it changed
replaceInDirectory(dir, oldCid, newCid, wip, sot) ==
    replacedDirectory(dir, replaceInChildren(dir.children, oldCid, newCid, wip, sot,
                                             <<>>, FALSE))

RECURSIVE replaceInContent(_, _, _, _, _, _)

\* the step of root.content.map(...) at a directory that resolves
replaceInRootDirectory(content, oldCid, newCid, sot, list, newDirectory) ==
    IF newDirectory.changed
    THEN replaceInContent(Tail(content), oldCid, newCid,
                          KVput(newDirectory.wip, newDirectory.dir), sot,
                          Append(list, cid(newDirectory.dir)))
    ELSE replaceInContent(Tail(content), oldCid, newCid, newDirectory.wip, sot,
                          Append(list, Head(content)))

\* root.content.map(...): [content, wip]
replaceInContent(content, oldCid, newCid, wip, sot, list) ==
    IF content = <<>>
    THEN [content |-> list, wip |-> wip]
    ELSE IF resolveIn(wip, sot, Head(content)) = Missing
    THEN replaceInContent(Tail(content), oldCid, newCid, wip, sot,
                          Append(list, Head(content)))
    ELSE replaceInRootDirectory(content, oldCid, newCid, sot, list,
                                replaceInDirectory(resolveIn(wip, sot, Head(content)),
                                                   oldCid, newCid, wip, sot))

\* what replaceDocumentCidInRoot returns, given the mapped content: [root, wip],
\* the new root, not yet stored, and the working tier after the puts
replacedRoot(root, mapped) ==
    [root |-> [root EXCEPT !.content = mapped.content], wip |-> mapped.wip]

replaceDocumentCidInRoot(root, oldCid, newCid, wip, sot) ==
    replacedRoot(root, replaceInContent(root.content, oldCid, newCid, wip, sot, <<>>))

handleAddRootDirectory(name) ==
    LET stored == KVput(workInProgress, newDir(name))
        currentRoot == resolveIn(stored, sourceOfTruth, workingRootCid)
    IN  /\ IF currentRoot # Missing
           THEN LET newRoot == GrammarRoot(Append(currentRoot.content, cid(newDir(name))))
                IN  /\ workInProgress' = KVput(stored, newRoot)
                    /\ workingRootCid' = cid(newRoot)
           ELSE /\ workInProgress' = stored
                /\ workingRootCid' = workingRootCid
        /\ last' = Call("handleAddRootDirectory", Void, cid(newDir(name)), FALSE)
        /\ UNCHANGED <<sourceOfTruth, heap, branches, archivedBranches,
                       defaultBranch, currentBranch, now>>

\* the editor saving the selected document (mode "edit")
handleSlateChange(selectedDocumentCid, value) ==
    LET selectedDocument == resolve(selectedDocumentCid)
    IN  IF selectedDocument = Missing
        THEN /\ last' = Call("handleSlateChange", [oldCid |-> selectedDocumentCid],
                             Void, FALSE)
             /\ UNCHANGED <<sourceOfTruth, workInProgress, heap, branches,
                            archivedBranches, defaultBranch, currentBranch,
                            workingRootCid, now>>
        ELSE LET document == slateToDocument(value, selectedDocument, now)
                 stored == StoreOf(Closure(document)) @@ workInProgress
                 root == resolveIn(stored, sourceOfTruth, workingRootCid)
             IN  /\ IF root # Missing /\ cid(document) # selectedDocumentCid
                    THEN LET replaced ==
                                 replaceDocumentCidInRoot(root, selectedDocumentCid,
                                                          cid(document), stored,
                                                          sourceOfTruth)
                         IN  /\ workInProgress' = KVput(replaced.wip, replaced.root)
                             /\ workingRootCid' = cid(replaced.root)
                    ELSE /\ workInProgress' = stored
                         /\ workingRootCid' = workingRootCid
                 /\ last' = Call("handleSlateChange", [oldCid |-> selectedDocumentCid],
                                 cid(document), FALSE)
                 /\ UNCHANGED <<sourceOfTruth, heap, branches, archivedBranches,
                                defaultBranch, currentBranch, now>>

\* the documents the tree view shows: those below the working root
ShownDocuments ==
    {id \in ReachableIn(workInProgress, sourceOfTruth, workingRootCid) :
        resolve(id).type = "document"}

\* the steps of the session, each enabled after the one before it
SessionNext ==
    \/ /\ last.op = "constructor"
       /\ handleAddRootDirectory("notes")
    \/ /\ last.op = "handleAddRootDirectory"
       /\ \E parentCid \in ShownDirectories : handleAddDocument(parentCid, "todo")
    \/ /\ last.op = "handleAddDocument"
       /\ commit("add todo", "alice")
    \/ /\ last.op = "commit"
       /\ Len(branches) = 1
       /\ createBranch("feature", NoCommit, TRUE)
    \/ /\ last.op = "createBranch"
       /\ \E todo \in ShownDocuments, value \in SlateValues :
             \/ handleSlateChange(todo, value)
             \/ updateNode(todo, slateToDocument(value, resolve(todo), now))
    \/ /\ last.op \in {"handleSlateChange", "updateNode"}
       /\ commit("edit", "alice")
    \/ /\ last.op = "commit"
       /\ currentBranch # defaultBranch
       /\ checkout(defaultBranch)
    \/ /\ last.op = "checkout"
       /\ \E sourceBranch \in Range(branches) \ {defaultBranch} : merge(sourceBranch)

SessionSpec == Init /\ [][SessionNext]_vars

-----------------------------------------------------------------------------
(* The CID of an object as its caller wrote it *)

\* a string and an array as values of a field
JSString(chars) == [string |-> chars]
JSArray(items) == [array |-> items]

\* the values a field of an object is given; name may be undefined (Missing)
FieldValues(key) ==
    IF key = "type" THEN {JSString("folder"), JSString("document"), JSString("grammar_root")}
    ELSE IF key = "name" THEN {JSString("a"), JSString("b"), Missing}
    ELSE {JSArray(<<>>), JSArray(<<cid(Paragraph)>>)}

\* the keys of the objects, in the order of their UTF-16 code units
KeyOrder == <<"content", "name", "type">>

\* the [key, value] entries an object literal can hold
Entries ==
    UNION {{[key |-> key, value |-> value] : value \in FieldValues(key)}
           : key \in Range(KeyOrder)}

\* An object literal: its [key, value] entries in insertion order, no key
\* twice.
Objects ==
    {object \in UNION {[1..n -> Entries] : n \in 1..Len(KeyOrder)} :
        \A i, j \in DOMAIN object : object[i].key = object[j].key => i = j}

\* node[key]
ValueOf(object, key) ==
    object[CHOOSE i \in DOMAIN object : object[i].key = key].value

\* Object.keys(node).sort()
sortedKeys(object) ==
    SelectSeq(KeyOrder, LAMBDA key : \E i \in DOMAIN object : object[i].key = key)

\* Object.keys(node)
insertionKeys(object) == [i \in DOMAIN object |-> object[i].key]

\* JSON.stringify of a key, a string or an array of strings: one text per value
JSONText(value) == [json |-> value]

\* the members `"key":value` for the keys in the given order; a member whose
\* value is undefined is left out
RECURSIVE Members(_, _)
Members(object, keys) ==
    IF keys = <<>> THEN <<>>
    ELSE (IF ValueOf(object, Head(keys)) = Missing
          THEN <<>>
          ELSE <<[key |-> JSONText(Head(keys)),
                  value |-> JSONText(ValueOf(object, Head(keys)))]>>)
         \o Members(object, Tail(keys))

\* a mutant of stringify: the members in insertion order, as JSON.stringify
stringifyUnsorted(object) == Members(object, insertionKeys(object))

\* fast-json-stable-stringify: the members in the order of the sorted keys
stringify(object) == Members(object, sortedKeys(object))

\* bytesToHex(sha256(bytes)): one digest per text
sha256(text) == [digest |-> text]

\* cid(node) of cid.ts on an object literal
cidOfObject(object) == sha256(stringify(object))

\* the node an object literal denotes: its defined fields, in no order
AsNode(object) ==
    [key \in {object[i].key : i \in {j \in DOMAIN object : object[j].value # Missing}}
        |-> ValueOf(object, key)]

\* a call of cid(node) by a caller of the engine
cidCall(object) ==
    /\ last' = Call("cid", [node |-> object], cidOfObject(object), FALSE)
    /\ UNCHANGED <<sourceOfTruth, workInProgress, heap, branches,
                   archivedBranches, defaultBranch, currentBranch,
                   workingRootCid, now>>

CidNext == \E object \in Objects : cidCall(object)

CidSpec == Init /\ [][CidNext]_vars

-----------------------------------------------------------------------------
(* The commit graph seen through HistoryView *)

MaxHistory == 3

MaxDepth == 3

\* null, as returned by findCommonAncestor
Null == [null |-> TRUE]

\* a mutant of ParentsOf: only the first parent of a commit is followed
FirstParentOf(id) ==
    IF resolve(id) = Missing \/ resolve(id).parents = <<>>
    THEN <<>>
    ELSE <<resolve(id).parents[1]>>

\* the CIDs pushed for a visited CID: commit.parents if it resolves
ParentsOf(id) == IF resolve(id) = Missing THEN <<>> ELSE resolve(id).parents

RECURSIVE commonAncestorLoop(_, _, _, _)

\* a mutant of commonAncestorLoop: each side looks a CID up in its own
\* visited set
commonAncestorLoopOwnVisited(queueA, queueB, visitedA, visitedB) ==
    IF queueA = <<>> /\ queueB = <<>> THEN Null
    ELSE IF queueA # <<>> /\ Head(queueA) \in visitedA THEN Head(queueA)
    ELSE LET nextVisitedA == IF queueA # <<>>
                             THEN visitedA \cup {Head(queueA)} ELSE visitedA
             nextQueueA == IF queueA # <<>>
                           THEN Tail(queueA) \o ParentsOf(Head(queueA)) ELSE queueA
         IN  IF queueB # <<>> /\ Head(queueB) \in visitedB THEN Head(queueB)
             ELSE commonAncestorLoop(
                      nextQueueA,
                      IF queueB # <<>>
                      THEN Tail(queueB) \o ParentsOf(Head(queueB)) ELSE queueB,
                      nextVisitedA,
                      IF queueB # <<>>
                      THEN visitedB \cup {Head(queueB)} ELSE visitedB)

\* the while loop of findCommonAncestor: one shift of each non-empty queue
\* per iteration
commonAncestorLoop(queueA, queueB, visitedA, visitedB) ==
    IF queueA = <<>> /\ queueB = <<>> THEN Null
    ELSE IF queueA # <<>> /\ Head(queueA) \in visitedB THEN Head(queueA)
    ELSE LET nextVisitedA == IF queueA # <<>>
                             THEN visitedA \cup {Head(queueA)} ELSE visitedA
             nextQueueA == IF queueA # <<>>
                           THEN Tail(queueA) \o ParentsOf(Head(queueA)) ELSE queueA
         IN  IF queueB # <<>> /\ Head(queueB) \in nextVisitedA THEN Head(queueB)
             ELSE commonAncestorLoop(
                      nextQueueA,
                      IF queueB # <<>>
                      THEN Tail(queueB) \o ParentsOf(Head(queueB)) ELSE queueB,
                      nextVisitedA,
                      IF queueB # <<>>
                      THEN visitedB \cup {Head(queueB)} ELSE visitedB)

findCommonAncestor(branchA, branchB) ==
    commonAncestorLoop(<<heap[branchA].commit>>, <<heap[branchB].commit>>, {}, {})

\* the while loop of isAncestor
RECURSIVE isAncestorLoop(_, _, _)
isAncestorLoop(potentialAncestor, queue, visited) ==
    IF queue = <<>> THEN FALSE
    ELSE IF Head(queue) = potentialAncestor THEN TRUE
    ELSE IF Head(queue) \in visited
         THEN isAncestorLoop(potentialAncestor, Tail(queue), visited)
         ELSE isAncestorLoop(potentialAncestor,
                             Tail(queue) \o ParentsOf(Head(queue)),
                             visited \cup {Head(queue)})

isAncestor(potentialAncestor, descendant) ==
    isAncestorLoop(potentialAncestor, <<descendant>>, {})

\* new Date(commit.timestamp).getTime()
getTime(id) == resolve(id).timestamp

\* the place of an item in a list sorted newest first: after every item
\* that is not older
RECURSIVE insertNewestFirst(_, _)
insertNewestFirst(sorted, id) ==
    IF sorted = <<>> THEN <<id>>
    ELSE IF getTime(Head(sorted)) >= getTime(id)
         THEN <<Head(sorted)>> \o insertNewestFirst(Tail(sorted), id)
         ELSE <<id>> \o sorted

RECURSIVE sortNewestFirst(_, _)
sortNewestFirst(queue, sorted) ==
    IF queue = <<>> THEN sorted
    ELSE sortNewestFirst(Tail(queue), insertNewestFirst(sorted, Head(queue)))

\* queue.sort(...): the orders the sort can leave.  With every CID resolving
\* the comparator orders by timestamp, newest first, and the sort is stable.
\* With a CID that does not resolve the comparator answers 0 for it against
\* every other item, which is no consistent order, and the order the sort
\* leaves is implementation-defined: any order of the items.
sortOutcomes(queue) ==
    IF \A i \in DOMAIN queue : resolve(queue[i]) # Missing
    THEN {sortNewestFirst(queue, <<>>)}
    ELSE {[i \in DOMAIN queue |-> queue[order[i]]] :
             order \in {f \in [DOMAIN queue -> DOMAIN queue] :
                           \A i, j \in DOMAIN queue : f[i] = f[j] => i = j}}

\* a mutant of CommitNode: a commit with a parent counts as a merge commit
CommitNodeMergeIfParent(id, givenBranches) ==
    [cid |-> id,
     commit |-> resolve(id),
     branches |-> SelectSeq(givenBranches, LAMBDA b : heap[b].commit = id),
     isMergeCommit |-> Len(resolve(id).parents) > 0]

\* the entry pushed for a commit
CommitNode(id, givenBranches) ==
    [cid |-> id,
     commit |-> resolve(id),
     branches |-> SelectSeq(givenBranches, LAMBDA b : heap[b].commit = id),
     isMergeCommit |-> Len(resolve(id).parents) > 1]

RECURSIVE historyLoop(_, _, _, _, _)

\* the body of the while loop of getCommitHistory on the sorted queue (the
\* depth carried with each queued CID is never read and is left out)
historyStep(givenBranches, sorted, visited, result, maxDepth) ==
    IF Head(sorted) \in visited
    THEN historyLoop(givenBranches, Tail(sorted), visited, result, maxDepth)
    ELSE IF resolve(Head(sorted)) = Missing
    THEN historyLoop(givenBranches, Tail(sorted), visited \cup {Head(sorted)},
                     result, maxDepth)
    ELSE historyLoop(givenBranches,
                     Tail(sorted) \o SelectSeq(resolve(Head(sorted)).parents,
                                               LAMBDA parentCid :
                                                  parentCid \notin visited
                                                  /\ parentCid # Head(sorted)),
                     visited \cup {Head(sorted)},
                     Append(result, CommitNode(Head(sorted), givenBranches)),
                     maxDepth)

\* the results the while loop of getCommitHistory can end with
historyLoop(givenBranches, queue, visited, result, maxDepth) ==
    IF queue = <<>> \/ Len(result) >= maxDepth
    THEN {result}
    ELSE UNION {historyStep(givenBranches, sorted, visited, result, maxDepth) :
                   sorted \in sortOutcomes(queue)}

\* the lists getCommitHistory(branches, resolve, maxDepth) can return
getCommitHistory(givenBranches, maxDepth) ==
    historyLoop(givenBranches,
                [i \in DOMAIN givenBranches |-> heap[givenBranches[i]].commit],
                {}, <<>>, maxDepth)

findCommonAncestorCall(branchA, branchB) ==
    /\ last' = Call("findCommonAncestor", [branchA |-> branchA, branchB |-> branchB],
                    findCommonAncestor(branchA, branchB), FALSE)
    /\ UNCHANGED <<sourceOfTruth, workInProgress, heap, branches,
                   archivedBranches, defaultBranch, currentBranch,
                   workingRootCid, now>>

isAncestorCall(potentialAncestor, descendant) ==
    /\ last' = Call("isAncestor",
                    [potentialAncestor |-> potentialAncestor,
                     descendant |-> descendant],
                    isAncestor(potentialAncestor, descendant), FALSE)
    /\ UNCHANGED <<sourceOfTruth, workInProgress, heap, branches,
                   archivedBranches, defaultBranch, currentBranch,
                   workingRootCid, now>>

getCommitHistoryCall(maxDepth) ==
    \E result \in getCommitHistory(branches, maxDepth) :
        /\ last' = Call("getCommitHistory", [maxDepth |-> maxDepth], result, FALSE)
        /\ UNCHANGED <<sourceOfTruth, workInProgress, heap, branches,
                       archivedBranches, defaultBranch, currentBranch,
                       workingRootCid, now>>

\* the commit CIDs a caller can hold: the stored commits and a lost one
CommitCids == Commits(sourceOfTruth) \cup {DanglingCommit}

HistoryNext ==
    \/ \E message \in Messages, author \in Authors :
          /\ Cardinality(Commits(sourceOfTruth)) <= MaxHistory
          /\ commit(message, author)
    \/ \E branch \in DOMAIN heap : checkout(branch)
    \/ \E from \in {NoCommit} \cup CommitCids :
          /\ Cardinality(DOMAIN heap) < MaxBranches
          /\ createBranch("feature", from, FALSE)
    \/ \E sourceBranch \in DOMAIN heap :
          /\ Cardinality(Commits(sourceOfTruth)) <= MaxHistory
          /\ merge(sourceBranch)
    \/ \E branchA \in DOMAIN heap, branchB \in DOMAIN heap :
          findCommonAncestorCall(branchA, branchB)
    \/ \E potentialAncestor \in CommitCids, descendant \in CommitCids :
          isAncestorCall(potentialAncestor, descendant)
    \/ \E maxDepth \in 0..MaxDepth : getCommitHistoryCall(maxDepth)

HistorySpec == Init /\ [][HistoryNext]_vars

-----------------------------------------------------------------------------
(* The working tree seen through TreeWalker *)

\* a mutant of folderPrefix: the prefix is not extended by the folder's name
folderPrefixFlat(pathPrefix, child) == pathPrefix

\* `${pathPrefix}${child.name}/`
folderPrefix(pathPrefix, child) == pathPrefix \o child.name \o "/"

\* `${pathPrefix}${doc.name || 'Untitled'}`
documentPath(pathPrefix, doc) ==
    pathPrefix \o (IF HasName(doc) THEN doc.name ELSE "Untitled")

DocumentInfo(id, doc, path) == [cid |-> id, doc |-> doc, path |-> path]

RECURSIVE walkDirectory(_, _)
RECURSIVE walkChildren(_, _)

\* the loop over dir.children: the entries pushed, in order
walkChildren(children, pathPrefix) ==
    IF children = <<>> THEN <<>>
    ELSE (IF resolve(Head(children)) = Missing THEN <<>>
          ELSE IF resolve(Head(children)).type = "folder"
          THEN walkDirectory(Head(children),
                             folderPrefix(pathPrefix, resolve(Head(children))))
          ELSE IF resolve(Head(children)).type = "document"
          THEN <<DocumentInfo(Head(children), resolve(Head(children)),
                              documentPath(pathPrefix, resolve(Head(children))))>>
          ELSE <<>>)
         \o walkChildren(Tail(children), pathPrefix)

walkDirectory(dirCid, pathPrefix) ==
    IF resolve(dirCid) = Missing THEN <<>>
    ELSE walkChildren(resolve(dirCid).children, pathPrefix)

\* the loop over root.content
RECURSIVE walkContent(_)
walkContent(content) ==
    IF content = <<>> THEN <<>>
    ELSE (IF resolve(Head(content)) = Missing THEN <<>>
          ELSE walkDirectory(Head(content), resolve(Head(content)).name \o "/"))
         \o walkContent(Tail(content))

getDocuments(rootCid) ==
    IF resolve(rootCid) = Missing THEN <<>>
    ELSE walkContent(resolve(rootCid).content)

\* a call of getDocuments(vc.getWorkingRoot())
getDocumentsCall ==
    /\ last' = Call("getDocuments", [rootCid |-> workingRootCid],
                    getDocuments(workingRootCid), FALSE)
    /\ UNCHANGED <<sourceOfTruth, workInProgress, heap, branches,
                   archivedBranches, defaultBranch, currentBranch,
                   workingRootCid, now>>

\* The engine after: a put of each node of a tree but at most one, and
\* setWorkingRoot of the tree's root.
TreeInit ==
    \E root \in MergeRoots :
        \E lost \in {{}} \cup {{node} : node \in Closure(root)} :
            /\ sourceOfTruth = KVput(KVput(EmptyStore, initialGrammarRoot), initialCommit)
            /\ workInProgress = StoreOf(Closure(root) \ lost)
            /\ archivedBranches = <<>>
            /\ heap = (1 :> Branch("default", cid(initialCommit)))
            /\ defaultBranch = 1
            /\ branches = <<1>>
            /\ currentBranch = 1
            /\ workingRootCid = cid(root)
            /\ now = 0
            /\ last = Call("setWorkingRoot", Void, Void, FALSE)

TreeNext == getDocumentsCall

TreeSpec == TreeInit /\ [][TreeNext]_vars

-----------------------------------------------------------------------------
(* The merge of roots that do not resolve *)

\* the roots of the two branches: no directory or one
LostRoots == {GrammarRoot(dirs) : dirs \in SeqsUpTo({cid(d) : d \in TopDirs}, 1)}

\* the nodes of a tree that a caller can leave out of a put: the root and
\* its directories
TopNodes(root) == {root} \cup {id.digest : id \in Range(root.content)}

\* The engine after: the trees put but for the nodes in `lost`,
\* setWorkingRoot(cid(currentRoot)), commit on default,
\* createBranch("feature", {fromCommit: the initial commit}), checkout of it,
\* setWorkingRoot(cid(sourceRoot)), commit, checkout of default, and a put
\* of the nodes in `late`.
LostInit ==
    \E currentRoot \in LostRoots, sourceRoot \in LostRoots :
        \E lost \in SUBSET ((TopNodes(currentRoot) \cup TopNodes(sourceRoot))
                            \ {initialGrammarRoot}) :
            \E late \in SUBSET lost :
                LET currentHead == Commit(<<cid(initialCommit)>>, cid(currentRoot),
                                          "alice", 0, "m")
                    sourceHead == Commit(<<cid(initialCommit)>>, cid(sourceRoot),
                                         "alice", 0, "m")
                IN  /\ sourceOfTruth =
                          StoreOf(((Closure(currentRoot) \cup Closure(sourceRoot)) \ lost)
                                  \cup {initialGrammarRoot, initialCommit,
                                        currentHead, sourceHead})
                    /\ workInProgress = StoreOf(late)
                    /\ archivedBranches = <<>>
                    /\ heap = (1 :> Branch("default", cid(currentHead)))
                              @@ (2 :> Branch("feature", cid(sourceHead)))
                    /\ defaultBranch = 1
                    /\ branches = <<1, 2>>
                    /\ currentBranch = 1
                    /\ workingRootCid = cid(currentRoot)
                    /\ now = 0
                    /\ last = IF late = {}
                              THEN Call("checkout", [uuid |-> 1], Void, FALSE)
                              ELSE Call("put", Void,
                                        cid(CHOOSE node \in late : TRUE), FALSE)

LostSpec == LostInit /\ [][MergeNext]_vars

-----------------------------------------------------------------------------
(* The heads of a caller that puts a Commit of its own *)

\* a root no caller ever puts
LostRoot == GrammarRoot(<<cid(DocU)>>)

\* a Commit object written by the caller, not made by commit or merge: put
\* takes any CIDable, and Commit is one
ForgedCommit == Commit(<<>>, cid(LostRoot), "mallory", 0, "forged")

\* the commits the engine made itself: by its constructor, commit or merge
EngineCommits == Commits(sourceOfTruth) \ {cid(ForgedCommit)}

\* the calls of a caller that gives setWorkingRoot only a CID that resolves
\* and createBranch only a fromCommit that is a commit in source-of-truth
HeadsNext ==
    \/ \E node \in PutNodes \cup {ForgedCommit} :
          /\ Cardinality(DOMAIN workInProgress) < MaxWip
          /\ put(node)
    \/ \E root \in RootNodes :
          /\ Cardinality(DOMAIN workInProgress) < MaxWip
          /\ setRoot(root)
    \/ \E root \in RootNodes :
          /\ resolve(cid(root)) # Missing
          /\ setWorkingRoot(cid(root))
    \/ \E message \in Messages, author \in Authors :
          /\ Cardinality(EngineCommits) <= MaxCommits
          /\ commit(message, author)
    \/ \E branch \in DOMAIN heap : checkout(branch)
    \/ \E carry \in BOOLEAN, from \in {NoCommit} \cup Commits(sourceOfTruth) :
          /\ Cardinality(DOMAIN heap) < MaxBranches
          /\ createBranch("feature", from, carry)
    \/ \E sourceBranch \in DOMAIN heap :
          /\ Cardinality(EngineCommits) <= MaxCommits
          /\ merge(sourceBranch)

HeadsSpec == Init /\ [][HeadsNext]_vars

-----------------------------------------------------------------------------
(* Merging the same branch again *)

\* two versions of one tree: directory "a" with the older and with the newer
\* document "x"
OlderRoot == GrammarRoot(<<cid(Directory("a", <<cid(DocX1)>>))>>)
NewerRoot == GrammarRoot(<<cid(Directory("a", <<cid(DocX2)>>))>>)

RemergeRoots == {OlderRoot, NewerRoot}

\* The engine after: the trees put, setRoot(currentRoot), commit on default,
\* createBranch("feature", {fromCommit}) from the initial commit or from a
\* commit that no tier holds, and if from the initial commit: checkout of
\* it, setRoot(sourceRoot), commit, checkout of default.
RemergeInit ==
    \E currentRoot \in RemergeRoots, sourceRoot \in RemergeRoots, lost \in BOOLEAN :
        LET currentHead == Commit(<<cid(initialCommit)>>, cid(currentRoot), "alice", 0, "m")
            sourceHead == Commit(<<cid(initialCommit)>>, cid(sourceRoot), "alice", 0, "m")
        IN  /\ sourceOfTruth =
                  StoreOf(Closure(currentRoot)
                          \cup (IF lost THEN {} ELSE Closure(sourceRoot) \cup {sourceHead})
                          \cup {initialGrammarRoot, initialCommit, currentHead})
            /\ workInProgress = EmptyStore
            /\ archivedBranches = <<>>
            /\ heap = (1 :> Branch("default", cid(currentHead)))
                      @@ (2 :> Branch("feature",
                                      IF lost THEN DanglingCommit ELSE cid(sourceHead)))
            /\ defaultBranch = 1
            /\ branches = <<1, 2>>
            /\ currentBranch = 1
            /\ workingRootCid = cid(currentRoot)
            /\ now = 0
            /\ last = IF lost
                      THEN Call("createBranch", Void, [uuid |-> 2], FALSE)
                      ELSE Call("checkout", [uuid |-> 1], Void, FALSE)

\* edits are a setRoot of a root over directories already stored
RemergeNext ==
    \/ \E root \in RemergeRoots :
          /\ \A ref \in Refs(root) : resolve(ref) # Missing
          /\ setRoot(root)
    \/ \E message \in Messages, author \in Authors :
          /\ Cardinality(Commits(sourceOfTruth)) <= MaxCommits + MaxHistory
          /\ commit(message, author)
    \/ \E branch \in DOMAIN heap : checkout(branch)
    \/ \E sourceBranch \in DOMAIN heap :
          /\ Cardinality(Commits(sourceOfTruth)) <= MaxCommits + MaxHistory
          /\ merge(sourceBranch)

RemergeSpec == RemergeInit /\ [][RemergeNext]_vars

-----------------------------------------------------------------------------
(* The loops of HistoryView, one iteration at a time *)

\* maxDepth when the caller gives none
DefaultMaxDepth == 50

\* a call of HistoryView is inside its while loop
Walking ==
    /\ last.op \in {"findCommonAncestor", "isAncestor", "getCommitHistory"}
    /\ last.arg.pc = "loop"

\* the call returns: the loop's variables stay as they were left
Return(value) ==
    /\ last' = [last EXCEPT !.arg.pc = "done", !.ret = value]
    /\ UNCHANGED <<sourceOfTruth, workInProgress, heap, branches,
                   archivedBranches, defaultBranch, currentBranch,
                   workingRootCid, now>>

\* the loop goes on with new values of its variables
Continue(locals) ==
    /\ last' = [last EXCEPT !.arg = locals]
    /\ UNCHANGED <<sourceOfTruth, workInProgress, heap, branches,
                   archivedBranches, defaultBranch, currentBranch,
                   workingRootCid, now>>

\* findCommonAncestor up to its while loop
findCommonAncestorStart(branchA, branchB) ==
    /\ ~Walking
    /\ last' = Call("findCommonAncestor",
                    [pc |-> "loop",
                     queueA |-> <<heap[branchA].commit>>, visitedA |-> {},
                     queueB |-> <<heap[branchB].commit>>, visitedB |-> {}],
                    Void, FALSE)
    /\ UNCHANGED <<sourceOfTruth, workInProgress, heap, branches,
                   archivedBranches, defaultBranch, currentBranch,
                   workingRootCid, now>>

\* one iteration of the while loop of findCommonAncestor, or its exit
findCommonAncestorStep ==
    /\ Walking
    /\ last.op = "findCommonAncestor"
    /\ LET queueA == last.arg.queueA
           queueB == last.arg.queueB
           visitedA == last.arg.visitedA
           visitedB == last.arg.visitedB
           nextVisitedA == IF queueA # <<>>
                           THEN visitedA \cup {Head(queueA)} ELSE visitedA
           nextQueueA == IF queueA # <<>>
                         THEN Tail(queueA) \o ParentsOf(Head(queueA)) ELSE queueA
       IN  IF queueA = <<>> /\ queueB = <<>> THEN Return(Null)
           ELSE IF queueA # <<>> /\ Head(queueA) \in visitedB
           THEN Return(Head(queueA))
           ELSE IF queueB # <<>> /\ Head(queueB) \in nextVisitedA
           THEN Return(Head(queueB))
           ELSE Continue([last.arg EXCEPT
                            !.queueA = nextQueueA,
                            !.visitedA = nextVisitedA,
                            !.queueB = IF queueB # <<>>
                                       THEN Tail(queueB) \o ParentsOf(Head(queueB))
                                       ELSE queueB,
                            !.visitedB = IF queueB # <<>>
                                         THEN visitedB \cup {Head(queueB)}
                                         ELSE visitedB])

\* isAncestor up to its while loop
isAncestorStart(potentialAncestor, descendant) ==
    /\ ~Walking
    /\ last' = Call("isAncestor",
                    [pc |-> "loop", potentialAncestor |-> potentialAncestor,
                     queue |-> <<descendant>>, visited |-> {}],
                    Void, FALSE)
    /\ UNCHANGED <<sourceOfTruth, workInProgress, heap, branches,
                   archivedBranches, defaultBranch, currentBranch,
                   workingRootCid, now>>

\* a mutant of isAncestorStep: a CID already visited is not taken off the
\* queue
isAncestorStepKeepsVisited ==
    /\ Walking
    /\ last.op = "isAncestor"
    /\ LET queue == last.arg.queue
           visited == last.arg.visited
       IN  IF queue = <<>> THEN Return(FALSE)
           ELSE IF Head(queue) = last.arg.potentialAncestor THEN Return(TRUE)
           ELSE IF Head(queue) \in visited
           THEN Continue(last.arg)
           ELSE Continue([last.arg EXCEPT
                            !.queue = Tail(queue) \o ParentsOf(Head(queue)),
                            !.visited = visited \cup {Head(queue)}])

\* one iteration of the while loop of isAncestor, or its exit
isAncestorStep ==
    /\ Walking
    /\ last.op = "isAncestor"
    /\ LET queue == last.arg.queue
           visited == last.arg.visited
       IN  IF queue = <<>> THEN Return(FALSE)
           ELSE IF Head(queue) = last.arg.potentialAncestor THEN Return(TRUE)
           ELSE IF Head(queue) \in visited
           THEN Continue([last.arg EXCEPT !.queue = Tail(queue)])
           ELSE Continue([last.arg EXCEPT
                            !.queue = Tail(queue) \o ParentsOf(Head(queue)),
                            !.visited = visited \cup {Head(queue)}])

\* getCommitHistory(branches, resolve, maxDepth) up to its while loop
getCommitHistoryStart(maxDepth) ==
    /\ ~Walking
    /\ last' = Call("getCommitHistory",
                    [pc |-> "loop", maxDepth |-> maxDepth,
                     queue |-> [i \in DOMAIN branches |-> heap[branches[i]].commit],
                     visited |-> {}, result |-> <<>>],
                    Void, FALSE)
    /\ UNCHANGED <<sourceOfTruth, workInProgress, heap, branches,
                   archivedBranches, defaultBranch, currentBranch,
                   workingRootCid, now>>

\* one iteration of the while loop of getCommitHistory, or its exit
getCommitHistoryStep ==
    /\ Walking
    /\ last.op = "getCommitHistory"
    /\ LET queue == last.arg.queue
           visited == last.arg.visited
           result == last.arg.result
       IN  IF queue = <<>> \/ Len(result) >= last.arg.maxDepth
           THEN Return(result)
           ELSE \E sorted \in sortOutcomes(queue) :
                  IF Head(sorted) \in visited
                  THEN Continue([last.arg EXCEPT !.queue = Tail(sorted)])
                  ELSE IF resolve(Head(sorted)) = Missing
                  THEN Continue([last.arg EXCEPT
                                   !.queue = Tail(sorted),
                                   !.visited = visited \cup {Head(sorted)}])
                  ELSE Continue([last.arg EXCEPT
                                   !.queue =
                                       Tail(sorted)
                                       \o SelectSeq(resolve(Head(sorted)).parents,
                                                    LAMBDA parentCid :
                                                       parentCid \notin visited
                                                       /\ parentCid # Head(sorted)),
                                   !.visited = visited \cup {Head(sorted)},
                                   !.result = Append(result,
                                                     CommitNode(Head(sorted), branches))])

\* the engine's calls are made between the calls of HistoryView, never
\* inside one: a walk runs to its return
WalkNext ==
    \/ \E message \in Messages, author \in Authors :
          /\ ~Walking
          /\ Cardinality(Commits(sourceOfTruth)) <= MaxHistory
          /\ commit(message, author)
    \/ \E branch \in DOMAIN heap : ~Walking /\ checkout(branch)
    \/ \E from \in {NoCommit, DanglingCommit} :
          /\ ~Walking
          /\ Cardinality(DOMAIN heap) < MaxBranches
          /\ createBranch("feature", from, FALSE)
    \/ \E sourceBranch \in DOMAIN heap :
          /\ ~Walking
          /\ Cardinality(Commits(sourceOfTruth)) <= MaxHistory
          /\ merge(sourceBranch)
    \/ \E branchA \in DOMAIN heap, branchB \in DOMAIN heap :
          findCommonAncestorStart(branchA, branchB)
    \/ findCommonAncestorStep
    \/ \E potentialAncestor \in CommitCids, branch \in DOMAIN heap :
          isAncestorStart(potentialAncestor, heap[branch].commit)
    \/ isAncestorStep
    \/ \E maxDepth \in {MaxDepth, DefaultMaxDepth} : getCommitHistoryStart(maxDepth)
    \/ getCommitHistoryStep

\* an iteration that can be made is made: the loops are straight-line code
WalkSpec ==
    /\ Init
    /\ [][WalkNext]_vars
    /\ WF_vars(findCommonAncestorStep)
    /\ WF_vars(isAncestorStep)
    /\ WF_vars(getCommitHistoryStep)

-----------------------------------------------------------------------------
(* Properties of the engine, checked under Spec *)

\* the head commit CID of a branch
HeadOf(branch) == heap[branch].commit

\* the Commit a CID names in the source-of-truth tier (Missing if none)
CommitAt(id) == KVget(sourceOfTruth, id)

NotDirty == [threw |-> FALSE, ret |-> FALSE]
Dirty == [threw |-> FALSE, ret |-> TRUE]

\* C1: a commit(message, author) step from any reachable state (1) leaves every
\* working-tier entry in source-of-truth and the working tier empty, (2)
\* stores a Commit whose parents are exactly [the current branch's prior head]
\* and whose content is the working root at the call, (3) makes it the current
\* branch's head and returns its CID, (4) leaves the working root unchanged.
C1_CommitContract ==
    [][last'.op = "commit" =>
        /\ \A id \in DOMAIN workInProgress :
              KVget(sourceOfTruth', id) = workInProgress[id]
        /\ DOMAIN workInProgress' = {}
        /\ KVhas(sourceOfTruth', last'.ret)
        /\ sourceOfTruth'[last'.ret].type = "commit"
        /\ sourceOfTruth'[last'.ret].parents = <<HeadOf(currentBranch)>>
        /\ sourceOfTruth'[last'.ret].content = workingRootCid
        /\ currentBranch' = currentBranch
        /\ heap'[currentBranch].commit = last'.ret
        /\ ~last'.threw
        /\ workingRootCid' = workingRootCid]_vars

\* a commit has just folded the put directory and the edited root
C1_Witness ==
    /\ last.op = "commit"
    /\ HeadOf(currentBranch) = last.ret
    /\ KVhas(sourceOfTruth, cid(DirA))
    /\ workingRootCid = cid(GrammarRoot(<<cid(DirA)>>))
    /\ KVhas(sourceOfTruth, workingRootCid)
    /\ CommitAt(last.ret).content = workingRootCid

\* what C2 says of a merge step of sourceBranch into the current branch
MergeCommitted(sourceBranch) ==
    /\ KVhas(sourceOfTruth', heap'[currentBranch].commit)
    /\ heap'[currentBranch].commit # HeadOf(currentBranch)
    /\ sourceOfTruth'[heap'[currentBranch].commit].type = "commit"
    /\ sourceOfTruth'[heap'[currentBranch].commit].parents =
          <<HeadOf(currentBranch), HeadOf(sourceBranch)>>
    /\ resolve(HeadOf(currentBranch)) # Missing
    /\ resolve(HeadOf(sourceBranch)) # Missing
    /\ sourceOfTruth'[heap'[currentBranch].commit].content =
          mergeGrammarRoots(resolve(HeadOf(currentBranch)).content,
                            resolve(HeadOf(sourceBranch)).content,
                            workInProgress, sourceOfTruth).cid
    /\ currentBranch' = currentBranch
    /\ workingRootCid' = sourceOfTruth'[heap'[currentBranch].commit].content
    /\ DOMAIN workInProgress' = {}

\* C2 as stated: every merge(sourceBranch) step with sourceBranch not the
\* current branch and the two heads different stores the two-parent commit
\* [current head, source head] with the merged content, repoints the current
\* branch, sets the working root to the merged content and empties the
\* working tier.
C2_MergeContract_AsStated ==
    [][(/\ last'.op = "merge"
        /\ last'.arg.uuid # currentBranch
        /\ HeadOf(currentBranch) # HeadOf(last'.arg.uuid))
       => MergeCommitted(last'.arg.uuid)]_vars

\* C2, amended: the same, for the merges in which both head commits resolve.
C2_MergeContract ==
    [][(/\ last'.op = "merge"
        /\ last'.arg.uuid # currentBranch
        /\ HeadOf(currentBranch) # HeadOf(last'.arg.uuid)
        /\ resolve(HeadOf(currentBranch)) # Missing
        /\ resolve(HeadOf(last'.arg.uuid)) # Missing)
       => MergeCommitted(last'.arg.uuid)]_vars

\* a merge has just committed two parents whose roots differ
C2_Witness ==
    /\ last.op = "merge"
    /\ ~last.threw
    /\ last.arg.uuid # currentBranch
    /\ Len(CommitAt(HeadOf(currentBranch)).parents) = 2
    /\ CommitAt(HeadOf(currentBranch)).parents[2] = HeadOf(last.arg.uuid)
    /\ CommitAt(CommitAt(HeadOf(currentBranch)).parents[1]).content #
          CommitAt(CommitAt(HeadOf(currentBranch)).parents[2]).content
    /\ workingRootCid = CommitAt(HeadOf(currentBranch)).content
    /\ workingRootCid = cid(GrammarRoot(<<cid(DirA)>>))

\* C3: a merge(sourceBranch) step with sourceBranch the current branch, or
\* with both branches at the same head commit, changes nothing: no commit is
\* stored and the heads, the live and archived sets, the current branch, the
\* working root and both tiers (uncommitted edits included) are as before.
C3_MergeNoop ==
    [][(/\ last'.op = "merge"
        /\ \/ last'.arg.uuid = currentBranch
           \/ HeadOf(currentBranch) = HeadOf(last'.arg.uuid))
       => /\ ~last'.threw
          /\ UNCHANGED <<sourceOfTruth, workInProgress, heap, branches,
                         archivedBranches, defaultBranch, currentBranch,
                         workingRootCid, now>>]_vars

\* a merge of another branch at the same head returned with edits pending
C3_Witness ==
    /\ last.op = "merge"
    /\ last.arg.uuid # currentBranch
    /\ HeadOf(currentBranch) = HeadOf(last.arg.uuid)
    /\ KVhas(workInProgress, workingRootCid)
    /\ isDirty = Dirty

C9_DirtyAfterCommit ==
    [][/\ last'.op = "commit" => isDirty' = NotDirty
       /\ KVhas(sourceOfTruth', heap'[currentBranch'].commit)
             => isDirty' = [threw |-> FALSE,
                            ret |-> sourceOfTruth'[heap'[currentBranch'].commit].content
                                       # workingRootCid']]_vars

\* a commit has just been made of a root other than its parent's
C9_Witness ==
    /\ last.op = "commit"
    /\ isDirty = NotDirty
    /\ Len(CommitAt(last.ret).parents) = 1
    /\ CommitAt(CommitAt(last.ret).parents[1]).content # workingRootCid

\* C10 as stated: after every setRoot step that changes the working root's
\* CID, isDirty() is true.
C10_DirtyAfterSetRoot_AsStated ==
    [][(last'.op = "setRoot" /\ workingRootCid' # workingRootCid)
       => isDirty' = Dirty]_vars

\* C10, amended: after a setRoot step that changes the working root's CID,
\* isDirty() is true if it was false before the call, and if it was true
\* before the call it is true exactly when the new working root differs from
\* the content of the current branch's head commit.
C10_DirtyAfterSetRoot ==
    [][(last'.op = "setRoot" /\ workingRootCid' # workingRootCid)
       => /\ isDirty = NotDirty => isDirty' = Dirty
          /\ (isDirty = Dirty /\ KVhas(sourceOfTruth, HeadOf(currentBranch))) =>
                isDirty' = [threw |-> FALSE,
                            ret |-> CommitAt(HeadOf(currentBranch)).content
                                       # workingRootCid']]_vars

\* a setRoot has just made a clean engine dirty: only the new root is pending
C10_Witness ==
    /\ last.op = "setRoot"
    /\ isDirty = Dirty
    /\ DOMAIN workInProgress = {workingRootCid}

-----------------------------------------------------------------------------
(* Properties of the tree merge, checked under MergeSpec *)

\* the node a CID names in the source-of-truth tier
NodeAt(id) == sourceOfTruth[id]

\* the merge commits: the stored commits with two parents
MergeCommits ==
    {id \in Commits(sourceOfTruth) : Len(NodeAt(id).parents) = 2}

\* the roots a merge commit was made from and the root it made
CurrentRootOf(id) == NodeAt(NodeAt(id).parents[1]).content
SourceRootOf(id) == NodeAt(NodeAt(id).parents[2]).content
MergedRootOf(id) == NodeAt(id).content

\* the positions of a list of CIDs that hold a stored node
Stored(ids) == {i \in DOMAIN ids : KVhas(sourceOfTruth, ids[i])}

\* the name of a child, "untitled" for a document that has none
NameOf(id) ==
    IF NodeAt(id).type # "folder"
       /\ ("name" \notin DOMAIN NodeAt(id) \/ NodeAt(id).name = "")
    THEN "untitled"
    ELSE NodeAt(id).name

NamesIn(ids) == {NameOf(ids[i]) : i \in Stored(ids)}

PositionsOf(ids, name) == {i \in Stored(ids) : NameOf(ids[i]) = name}

\* the entry a side holds for a name: its last child of that name
EntryOf(ids, name) ==
    ids[CHOOSE i \in PositionsOf(ids, name) :
            \A j \in PositionsOf(ids, name) : j <= i]

BothFolders(id1, id2) == NodeAt(id1).type = "folder" /\ NodeAt(id2).type = "folder"

\* source wins in the merged directory, and in the merged folders below it
RECURSIVE SourceWinsIn(_, _, _)
SourceWinsIn(currentDir, sourceDir, mergedDir) ==
    LET currentIds == NodeAt(currentDir).children
        sourceIds == NodeAt(sourceDir).children
        mergedIds == NodeAt(mergedDir).children
    IN  \A name \in NamesIn(currentIds) \cap NamesIn(sourceIds) :
            /\ Cardinality(PositionsOf(mergedIds, name)) = 1
            /\ IF BothFolders(EntryOf(currentIds, name), EntryOf(sourceIds, name))
               THEN SourceWinsIn(EntryOf(currentIds, name), EntryOf(sourceIds, name),
                                 EntryOf(mergedIds, name))
               ELSE /\ EntryOf(mergedIds, name) = EntryOf(sourceIds, name)
                    /\ \A i \in DOMAIN mergedIds :
                          mergedIds[i] = EntryOf(currentIds, name)
                             => mergedIds[i] = EntryOf(sourceIds, name)

\* the names of the top-level directories of a root that have a non-empty name
TopNamesIn(ids) == {NodeAt(ids[i]).name : i \in Stored(ids)} \ {""}

\* C4: source wins on name collision.  For every merge commit, in every
\* directory merged from a same-named pair, at every depth: for each child
\* name on both sides whose children are not both folders, the merged
\* directory holds the source side's child for that name and not the current
\* side's.
C4_SourceWins ==
    \A id \in MergeCommits :
        KVhas(sourceOfTruth, MergedRootOf(id)) =>
            LET currentIds == NodeAt(CurrentRootOf(id)).content
                sourceIds == NodeAt(SourceRootOf(id)).content
                mergedIds == NodeAt(MergedRootOf(id)).content
            IN  \A name \in TopNamesIn(currentIds) \cap TopNamesIn(sourceIds) :
                    /\ Cardinality(PositionsOf(mergedIds, name)) = 1
                    /\ KVhas(sourceOfTruth, EntryOf(mergedIds, name))
                    /\ SourceWinsIn(EntryOf(currentIds, name),
                                    EntryOf(sourceIds, name),
                                    EntryOf(mergedIds, name))

\* a[s[x = DocX1], y] merged with a[s[x = DocX2]]: the collision is one folder
\* down, and the merged s holds the source's DocX2
C4_Witness ==
    \E id \in MergeCommits :
        /\ CurrentRootOf(id) =
              cid(GrammarRoot(<<cid(Directory("a", <<cid(SubX1), cid(DocY)>>))>>))
        /\ SourceRootOf(id) = cid(GrammarRoot(<<cid(Directory("a", <<cid(SubX2)>>))>>))
        /\ MergedRootOf(id) =
              cid(GrammarRoot(<<cid(Directory("a", <<cid(SubX2), cid(DocY)>>))>>))
        /\ workingRootCid = MergedRootOf(id)

\* the merged folder holds every child name of either side exactly once, and
\* so do the folders merged below it
RECURSIVE UnionIn(_, _, _)
UnionIn(currentDir, sourceDir, mergedDir) ==
    LET currentIds == NodeAt(currentDir).children
        sourceIds == NodeAt(sourceDir).children
        mergedIds == NodeAt(mergedDir).children
    IN  /\ Stored(mergedIds) = DOMAIN mergedIds
        /\ NamesIn(mergedIds) = NamesIn(currentIds) \cup NamesIn(sourceIds)
        /\ \A name \in NamesIn(mergedIds) :
              /\ Cardinality(PositionsOf(mergedIds, name)) = 1
              /\ (/\ name \in NamesIn(currentIds) \cap NamesIn(sourceIds)
                  /\ BothFolders(EntryOf(currentIds, name), EntryOf(sourceIds, name)))
                 => UnionIn(EntryOf(currentIds, name), EntryOf(sourceIds, name),
                            EntryOf(mergedIds, name))

\* the names of all the top-level directories of a root
DirNamesIn(ids) == {NodeAt(ids[i]).name : i \in Stored(ids)}

\* C5: the merge is a name-keyed union.  For every merge commit the merged
\* root holds exactly one top-level directory per directory name occurring in
\* either root and no other, and a same-named pair of folders is merged into
\* a folder holding every child name of either side exactly once, recursively.
C5_MergeUnion ==
    \A id \in MergeCommits :
        LET currentIds == NodeAt(CurrentRootOf(id)).content
            sourceIds == NodeAt(SourceRootOf(id)).content
            mergedIds == NodeAt(MergedRootOf(id)).content
        IN  /\ Stored(mergedIds) = DOMAIN mergedIds
            /\ DirNamesIn(mergedIds) = DirNamesIn(currentIds) \cup DirNamesIn(sourceIds)
            /\ \A name \in DirNamesIn(mergedIds) :
                  /\ Cardinality({i \in DOMAIN mergedIds :
                                     NodeAt(mergedIds[i]).name = name}) = 1
                  /\ name \in DirNamesIn(currentIds) \cap DirNamesIn(sourceIds)
                     => UnionIn(EntryOf(currentIds, name), EntryOf(sourceIds, name),
                                EntryOf(mergedIds, name))

-----------------------------------------------------------------------------
(* Properties of the tree edit, checked under EditSpec *)

\* the reachable CIDs whose node refers to a CID
ReferringTo(wip, sot, rootCid, target) ==
    {id \in ReachableIn(wip, sot, rootCid) : target \in Refs(resolveIn(wip, sot, id))}

\* the reachable CIDs with a CID strictly below them
AncestorsOf(wip, sot, rootCid, target) ==
    {id \in ReachableIn(wip, sot, rootCid) :
        id # target /\ target \in ReachableIn(wip, sot, id)}

\* C6: every updateNode(oldCid, newNode) step stores newNode in the working
\* tier; and if oldCid was referenced by a node reachable from the working
\* root before the call (newNode being another node, with no oldCid below
\* it), then after the call no node reachable from the new working root
\* references oldCid, the new node's CID is reachable from the new working
\* root, and every ancestor of an occurrence is gone from the tree, the new
\* root being stored in the working tier under a new CID.
C6_UpdateNodeRewritesTree ==
    [][last'.op = "updateNode" =>
        /\ KVget(workInProgress', last'.ret) = last'.ret.digest
        /\ (/\ ReferringTo(workInProgress, sourceOfTruth, workingRootCid,
                           last'.arg.oldCid) # {}
            /\ last'.ret # last'.arg.oldCid
            /\ last'.arg.oldCid \notin
                  ReachableIn(workInProgress', sourceOfTruth', last'.ret))
           => /\ ReferringTo(workInProgress', sourceOfTruth', workingRootCid',
                             last'.arg.oldCid) = {}
              /\ last'.ret \in
                    ReachableIn(workInProgress', sourceOfTruth', workingRootCid')
              /\ AncestorsOf(workInProgress, sourceOfTruth, workingRootCid,
                             last'.arg.oldCid)
                 \cap ReachableIn(workInProgress', sourceOfTruth', workingRootCid')
                 = {}
              /\ workingRootCid' # workingRootCid
              /\ KVhas(workInProgress', workingRootCid')]_vars

-----------------------------------------------------------------------------
(* Properties of the branch operations, checked under Spec *)

\* the values createBranch is given for options.fromCommit
FromCommitOptions == {NoCommit, DanglingCommit} \cup Commits(sourceOfTruth)

\* the commit a new branch starts at
StartOf(fromCommitOption) ==
    IF fromCommitOption = NoCommit THEN HeadOf(currentBranch) ELSE fromCommitOption

\* one branch, not allocated before, is appended to the live branches, with
\* the given name and head
AppendsBranch(name, fromCommitOption) ==
    /\ Len(branches') = Len(branches) + 1
    /\ SubSeq(branches', 1, Len(branches)) = branches
    /\ branches'[Len(branches')] \notin DOMAIN heap
    /\ DOMAIN heap' = DOMAIN heap \cup {branches'[Len(branches')]}
    /\ heap'[branches'[Len(branches')]] = Branch(name, StartOf(fromCommitOption))
    /\ \A b \in DOMAIN heap : heap'[b] = heap[b]
    /\ archivedBranches' = archivedBranches

\* C11: every createBranch(name, {fromCommit?, carryWorkingState: true}) step
\* copies every working-tier entry into source-of-truth, appends a new branch
\* at fromCommit (the current head when not given), makes it the current
\* branch, keeps the working root CID and empties the working tier; every CID
\* resolves after the call to what it resolved to before.
C11_CreateBranchCarry ==
    [][\A name \in BranchNames, from \in FromCommitOptions :
          createBranch(name, from, TRUE) =>
             /\ \A id \in DOMAIN workInProgress :
                   KVget(sourceOfTruth', id) = workInProgress[id]
             /\ AppendsBranch(name, from)
             /\ currentBranch' = branches'[Len(branches')]
             /\ workingRootCid' = workingRootCid
             /\ DOMAIN workInProgress' = {}
             /\ \A id \in DOMAIN workInProgress \cup DOMAIN sourceOfTruth :
                   resolveIn(workInProgress', sourceOfTruth', id) = resolve(id)]_vars

\* a branch was created with the uncommitted root [a] carried: the working
\* tier is empty, and the root and its directory resolve from source-of-truth
C11_Witness ==
    /\ last.op = "createBranch"
    /\ currentBranch = last.ret.uuid
    /\ DOMAIN workInProgress = {}
    /\ workingRootCid = cid(GrammarRoot(<<cid(DirA)>>))
    /\ KVget(sourceOfTruth, workingRootCid) = GrammarRoot(<<cid(DirA)>>)
    /\ KVget(sourceOfTruth, cid(DirA)) = DirA
    /\ \A id \in Commits(sourceOfTruth) : CommitAt(id).content # workingRootCid

\* C12: every createBranch(name, options) step without carryWorkingState
\* appends exactly one new branch, whose head is options.fromCommit if given
\* and the current branch's head otherwise, and leaves the current branch,
\* the working root, both store tiers and every existing branch's head
\* unchanged.
C12_CreateBranchFrame ==
    [][\A name \in BranchNames, from \in FromCommitOptions :
          createBranch(name, from, FALSE) =>
             /\ AppendsBranch(name, from)
             /\ currentBranch' = currentBranch
             /\ workingRootCid' = workingRootCid
             /\ sourceOfTruth' = sourceOfTruth
             /\ workInProgress' = workInProgress
             /\ defaultBranch' = defaultBranch]_vars

\* a branch was created at a given commit that is not the current head, with
\* uncommitted work pending, and the current branch is still the first one
C12_Witness ==
    /\ last.op = "createBranch"
    /\ currentBranch = 1
    /\ last.ret.uuid = 2
    /\ branches = <<1, 2>>
    /\ HeadOf(2) = cid(initialCommit)
    /\ HeadOf(1) # cid(initialCommit)
    /\ DOMAIN workInProgress # {}

\* the positions a branch holds in a list of branches
Occurrences(seq, branch) == {i \in DOMAIN seq : seq[i] = branch}

\* a list of branches without the branch at one position
Without(seq, idx) ==
    SubSeq(seq, 1, idx - 1) \o SubSeq(seq, idx + 1, Len(seq))

\* C13: every archiveBranch(branch) step moves a live branch that is not the
\* default branch from the live list to the end of the archived list, and
\* changes neither list when the branch is the default branch or is not live;
\* nothing else changes; afterwards no branch is in both lists and the branch
\* is in the archived list at most once.
C13_ArchiveBranch ==
    [][\A branch \in DOMAIN heap :
          archiveBranch(branch) =>
             /\ IF branch \in Range(branches) /\ branch # defaultBranch
                THEN /\ \E idx \in Occurrences(branches, branch) :
                           branches' = Without(branches, idx)
                     /\ archivedBranches' = Append(archivedBranches, branch)
                ELSE /\ branches' = branches
                     /\ archivedBranches' = archivedBranches
             /\ UNCHANGED <<sourceOfTruth, workInProgress, heap, defaultBranch,
                            currentBranch, workingRootCid, now>>
             /\ Range(branches') \cap Range(archivedBranches') = {}
             /\ Cardinality(Occurrences(archivedBranches', branch)) <= 1]_vars

\* C14: in every reachable state the names of the live branches are pairwise
\* distinct (a createBranch whose name is that of a live branch adds no
\* second live branch of that name).
C14_LiveNamesDistinct ==
    \A i, j \in DOMAIN branches :
        i # j => heap[branches[i]].name # heap[branches[j]].name

\* C15: in every reachable state exactly one branch is named "default"; it is
\* the default branch, it is in the live list and it is not in the archived
\* list.
C15_OneDefaultBranch ==
    /\ {b \in DOMAIN heap : heap[b].name = "default"} = {defaultBranch}
    /\ defaultBranch \in Range(branches)
    /\ defaultBranch \notin Range(archivedBranches)

-----------------------------------------------------------------------------
(* Properties of the commit graph and of construction, checked under Spec *)

\* the number of parents of a stored commit
ParentCount(store, id) == Len(store[id].parents)

\* C16: every commit the engine has stored has 0, 1 or 2 parents, and only
\* the constructor's initial commit has none; the commit a commit() step
\* stores has exactly one parent; the commit a merge() step stores has exactly
\* two, the first the current branch's prior head and the second the source
\* branch's head.
C16_ParentCounts ==
    [][/\ \A id \in Commits(sourceOfTruth') :
             /\ ParentCount(sourceOfTruth', id) \in {0, 1, 2}
             /\ ParentCount(sourceOfTruth', id) = 0 => id = cid(initialCommit)
       /\ last'.op = "commit" =>
             /\ last'.ret \in Commits(sourceOfTruth')
             /\ ParentCount(sourceOfTruth', last'.ret) = 1
       /\ (last'.op = "merge" /\ heap'[currentBranch] # heap[currentBranch]) =>
             /\ heap'[currentBranch].commit \in Commits(sourceOfTruth')
             /\ sourceOfTruth'[heap'[currentBranch].commit].parents =
                   <<HeadOf(currentBranch), HeadOf(last'.arg.uuid)>>]_vars

\* the store holds the initial commit, a commit made by commit() on it, and a
\* merge commit that is the current head
C16_Witness ==
    /\ last.op = "merge"
    /\ HeadOf(currentBranch) \in Commits(sourceOfTruth)
    /\ ParentCount(sourceOfTruth, HeadOf(currentBranch)) = 2
    /\ \E id \in Commits(sourceOfTruth) :
          /\ ParentCount(sourceOfTruth, id) = 1
          /\ id \in Range(CommitAt(HeadOf(currentBranch)).parents)
    /\ \E id \in Commits(sourceOfTruth) : ParentCount(sourceOfTruth, id) = 0

\* C17: immediately after construction there is exactly one live branch, named
\* "default", which is the default and the current branch; its head resolves
\* from source-of-truth to a Commit with no parents and author "system" whose
\* content is the CID of the empty GrammarRoot; the working root is that CID
\* and resolves to the empty GrammarRoot; the working tier and the archived
\* list are empty; isDirty() is false.
C17_FreshEngine ==
    last.op = "constructor" =>
        /\ Len(branches) = 1
        /\ heap[branches[1]].name = "default"
        /\ defaultBranch = branches[1]
        /\ currentBranch = branches[1]
        /\ KVhas(sourceOfTruth, HeadOf(branches[1]))
        /\ CommitAt(HeadOf(branches[1])).type = "commit"
        /\ CommitAt(HeadOf(branches[1])).parents = <<>>
        /\ CommitAt(HeadOf(branches[1])).author = "system"
        /\ CommitAt(HeadOf(branches[1])).content =
              cid([type |-> "grammar_root", content |-> <<>>])
        /\ workingRootCid = cid([type |-> "grammar_root", content |-> <<>>])
        /\ resolve(workingRootCid) = [type |-> "grammar_root", content |-> <<>>]
        /\ DOMAIN workInProgress = {}
        /\ archivedBranches = <<>>
        /\ isDirty = NotDirty

\* the engine as the constructor leaves it
C17_Witness ==
    /\ last.op = "constructor"
    /\ DOMAIN sourceOfTruth = {workingRootCid, HeadOf(currentBranch)}
    /\ Cardinality(DOMAIN heap) = 1

-----------------------------------------------------------------------------
(* Properties of put and resolve, checked under StoreSpec *)

\* C19: every resolve(cid) call returns the working-tier entry for cid if
\* there is one, otherwise the source-of-truth entry, otherwise undefined; it
\* does not throw and it changes no engine state.
C19_ResolveTiers ==
    [][last'.op = "resolve" =>
          /\ last'.ret = IF last'.arg.cid \in DOMAIN workInProgress
                         THEN workInProgress[last'.arg.cid]
                         ELSE IF last'.arg.cid \in DOMAIN sourceOfTruth
                              THEN sourceOfTruth[last'.arg.cid]
                              ELSE Missing
          /\ ~last'.threw
          /\ UNCHANGED <<sourceOfTruth, workInProgress, heap, branches,
                         archivedBranches, defaultBranch, currentBranch,
                         workingRootCid, now>>]_vars

\* resolve has just answered from source-of-truth for a node that a commit
\* folded out of the working tier, while the working tier holds another node
C19_Witness ==
    /\ last.op = "resolve"
    /\ last.arg.cid = cid(DirA)
    /\ last.ret = DirA
    /\ cid(DirA) \notin DOMAIN workInProgress
    /\ cid(DocX1) \in DOMAIN workInProgress

\* C20: every put(n) step returns the CID of n and leaves n resolving from
\* that CID; if the working tier already held an equal node the returned CID
\* is the one it is stored under and the working tier keeps its entries, and
\* otherwise it gains exactly that one; nothing but the working tier changes.
C20_PutIdempotent ==
    [][\A node \in StoreNodes :
          put(node) =>
             /\ last'.ret = cid(node)
             /\ resolveIn(workInProgress', sourceOfTruth', last'.ret) = node
             /\ IF \E id \in DOMAIN workInProgress : workInProgress[id] = node
                THEN /\ workInProgress[last'.ret] = node
                     /\ workInProgress' = workInProgress
                ELSE /\ DOMAIN workInProgress' = DOMAIN workInProgress \cup {last'.ret}
                     /\ \A id \in DOMAIN workInProgress :
                           workInProgress'[id] = workInProgress[id]
             /\ UNCHANGED <<sourceOfTruth, heap, branches, archivedBranches,
                            defaultBranch, currentBranch, workingRootCid, now>>]_vars

\* a node that a commit folded into source-of-truth has been put again: it
\* is in both tiers under the one CID, next to another working-tier entry
C20_Witness ==
    /\ last.op = "put"
    /\ last.ret = cid(DirA)
    /\ KVget(sourceOfTruth, cid(DirA)) = DirA
    /\ DOMAIN workInProgress = {cid(DocX1), cid(DirA)}
    /\ resolve(last.ret) = DirA

-----------------------------------------------------------------------------
(* Properties of the session, checked under SessionSpec *)

\* the stored documents named "todo" that an edit gave content
EditedTodos ==
    {id \in DOMAIN sourceOfTruth :
        /\ sourceOfTruth[id].type = "document"
        /\ sourceOfTruth[id].name = "todo"
        /\ sourceOfTruth[id].content # <<>>}

\* a root holding a single folder "notes" whose one entry is an edited "todo"
HoldsEditedTodo(rootCid) ==
    /\ resolve(rootCid) # Missing
    /\ Len(resolve(rootCid).content) = 1
    /\ resolve(resolve(rootCid).content[1]) # Missing
    /\ resolve(resolve(rootCid).content[1]).type = "folder"
    /\ resolve(resolve(rootCid).content[1]).name = "notes"
    /\ Len(resolve(resolve(rootCid).content[1]).children) = 1
    /\ resolve(resolve(rootCid).content[1]).children[1] \in EditedTodos

\* C18: when the session ends (folder "notes", document "todo" in it, commit,
\* branch "feature" with the working state carried, "todo" replaced by an
\* edited document, commit, checkout of the default branch, merge of
\* feature), the working root and the content of the default branch's head
\* hold a single "notes" folder whose "todo" entry is the edited document of
\* the feature branch, and the default head is a commit with two parents.
C18_SessionMerged ==
    last.op = "merge" =>
        /\ currentBranch = defaultBranch
        /\ HeadOf(defaultBranch) \in Commits(sourceOfTruth)
        /\ ParentCount(sourceOfTruth, HeadOf(defaultBranch)) = 2
        /\ HoldsEditedTodo(workingRootCid)
        /\ HoldsEditedTodo(CommitAt(HeadOf(defaultBranch)).content)

-----------------------------------------------------------------------------
(* The source-of-truth tier only grows, checked under Spec *)

\* the fold of the working tier into source-of-truth has just happened
FoldsWorkingTier ==
    \/ \E message \in Messages, author \in Authors : commit(message, author)
    \/ \E name \in BranchNames, from \in FromCommitOptions :
          createBranch(name, from, TRUE)

\* C21: every engine step keeps each source-of-truth entry with its node, so
\* a CID that resolved from source-of-truth still resolves to the same node;
\* a fold (commit, createBranch with carryWorkingState) leaves every
\* working-tier entry in source-of-truth, and folding a second time gives
\* the store that folding once gives.
C21_SourceOfTruthGrows ==
    [][/\ \A id \in DOMAIN sourceOfTruth :
             /\ KVhas(sourceOfTruth', id)
             /\ sourceOfTruth'[id] = sourceOfTruth[id]
       /\ FoldsWorkingTier =>
             \A id \in DOMAIN workInProgress :
                /\ KVhas(sourceOfTruth', id)
                /\ sourceOfTruth'[id] = workInProgress[id]
       /\ transferTo(workInProgress, transferTo(workInProgress, sourceOfTruth))
             = transferTo(workInProgress, sourceOfTruth)]_vars

\* a commit after a first one has folded the put directory into a
\* source-of-truth tier that already held the first commit
C21_Witness ==
    /\ last.op = "commit"
    /\ Cardinality(Commits(sourceOfTruth)) = 3
    /\ KVhas(sourceOfTruth, cid(DirA))
    /\ KVhas(sourceOfTruth, CommitAt(HeadOf(currentBranch)).parents[1])
    /\ CommitAt(HeadOf(currentBranch)).parents[1] # cid(initialCommit)
    /\ workInProgress = EmptyStore

-----------------------------------------------------------------------------
(* Properties of cid, checked under CidSpec *)

\* C22: of any two calls of cid that follow one another, the two results are
\* equal exactly when the two objects denote the same node, whatever the
\* insertion order of their fields: equal nodes get one CID, nodes that
\* differ in a field get two (sha256 taken as collision-free).
C22_CidCanonical ==
    [][(last.op = "cid" /\ last'.op = "cid") =>
        /\ (AsNode(last.arg.node) = AsNode(last'.arg.node)) <=> (last.ret = last'.ret)
        /\ (cid(AsNode(last.arg.node)) = cid(AsNode(last'.arg.node)))
              <=> (last.ret = last'.ret)]_vars

\* cid was called on a document whose fields were inserted in an order that
\* is not the sorted one, and gave the CID of the same document written in
\* another order
C22_Witness ==
    /\ last.op = "cid"
    /\ last.arg.node = <<[key |-> "type", value |-> JSString("document")],
                         [key |-> "name", value |-> JSString("a")],
                         [key |-> "content", value |-> JSArray(<<>>)]>>
    /\ last.ret = cidOfObject(<<[key |-> "name", value |-> JSString("a")],
                                [key |-> "content", value |-> JSArray(<<>>)],
                                [key |-> "type", value |-> JSString("document")]>>)

-----------------------------------------------------------------------------
(* Properties of HistoryView, checked under HistorySpec *)

\* the parents a commit CID names, none if it does not resolve
ParentSet(id) == IF resolve(id) = Missing THEN {} ELSE Range(resolve(id).parents)

\* the CIDs reachable from a CID by parent edges, the CID itself included
RECURSIVE Ancestry(_, _)
Ancestry(frontier, seen) ==
    IF frontier \subseteq seen THEN seen
    ELSE Ancestry(UNION {ParentSet(id) : id \in frontier}, seen \cup frontier)

AncestryOf(id) == Ancestry({id}, {})

\* C0 <- C1 <- a and C1 <- b, with a and b two commits
ForkAt(c1, a, b) ==
    /\ a # b
    /\ resolve(a) # Missing /\ resolve(a).parents = <<c1>>
    /\ resolve(b) # Missing /\ resolve(b).parents = <<c1>>
    /\ resolve(c1) # Missing /\ Len(resolve(c1).parents) = 1
    /\ resolve(resolve(c1).parents[1]) # Missing
    /\ resolve(resolve(c1).parents[1]).parents = <<>>

\* C23: findCommonAncestor(A, B) returns null exactly when no CID is
\* reachable by parent edges from both heads (each head reachable from
\* itself), otherwise a CID reachable from both; for C0 <- C1 <- C2 (A's
\* head) and C1 <- C3 (B's head) it returns C1.
C23_CommonAncestor ==
    last.op = "findCommonAncestor" =>
        LET headA == HeadOf(last.arg.branchA)
            headB == HeadOf(last.arg.branchB)
            common == AncestryOf(headA) \cap AncestryOf(headB)
        IN  /\ (last.ret = Null) <=> (common = {})
            /\ last.ret # Null => last.ret \in common
            /\ \A c1 \in Commits(sourceOfTruth) :
                  ForkAt(c1, headA, headB) => last.ret = c1

\* findCommonAncestor has answered C1 for two heads that fork at C1, the
\* child of the initial commit
C23_Witness ==
    /\ last.op = "findCommonAncestor"
    /\ ForkAt(last.ret, HeadOf(last.arg.branchA), HeadOf(last.arg.branchB))

\* C24: isAncestor(candidate, descendant) is true exactly when candidate is
\* descendant or is reachable from it by parent edges, all parents of a merge
\* commit included, through commits that resolve.
C24_IsAncestor ==
    last.op = "isAncestor" =>
        last.ret = (last.arg.potentialAncestor \in AncestryOf(last.arg.descendant))

\* C24, the chain C0 <- C1 <- C2: isAncestor(C1, C2) was true and, asked the
\* other way round, is false
C24_Witness ==
    /\ last.op = "isAncestor"
    /\ last.ret = TRUE
    /\ \E c0 \in Commits(sourceOfTruth) :
          /\ resolve(last.arg.descendant) # Missing
          /\ resolve(last.arg.descendant).parents = <<last.arg.potentialAncestor>>
          /\ resolve(last.arg.potentialAncestor) # Missing
          /\ resolve(last.arg.potentialAncestor).parents = <<c0>>
    /\ ~isAncestor(last.arg.descendant, last.arg.potentialAncestor)

\* C25: a list returned by getCommitHistory(branches, resolve, maxDepth) has
\* at most maxDepth entries and no CID twice; each entry is a commit
\* reachable by parent edges from the head of a given branch, is annotated
\* with exactly the given branches whose head it is, and is marked a merge
\* commit exactly when it has more than one parent.
C25_CommitHistory ==
    last.op = "getCommitHistory" =>
        /\ Len(last.ret) <= last.arg.maxDepth
        /\ \A i, j \in DOMAIN last.ret : last.ret[i].cid = last.ret[j].cid => i = j
        /\ \A i \in DOMAIN last.ret :
              /\ last.ret[i].cid \in UNION {AncestryOf(HeadOf(b)) : b \in Range(branches)}
              /\ last.ret[i].cid \in Commits(sourceOfTruth)
              /\ last.ret[i].commit = sourceOfTruth[last.ret[i].cid]
              /\ Range(last.ret[i].branches) =
                    {b \in Range(branches) : HeadOf(b) = last.ret[i].cid}
              /\ \A k, l \in DOMAIN last.ret[i].branches :
                    last.ret[i].branches[k] = last.ret[i].branches[l] => k = l
              /\ last.ret[i].isMergeCommit =
                    (Len(sourceOfTruth[last.ret[i].cid].parents) > 1)

\* a history cut off at maxDepth that starts with a merge commit, the head
\* of a branch, and goes on with a parent that is the head of another
C25_Witness ==
    /\ last.op = "getCommitHistory"
    /\ Len(last.ret) = 2
    /\ last.arg.maxDepth = 2
    /\ Cardinality(Commits(sourceOfTruth)) > 2
    /\ last.ret[1].isMergeCommit
    /\ Len(last.ret[1].branches) = 1
    /\ ~last.ret[2].isMergeCommit
    /\ Len(last.ret[2].branches) = 1

-----------------------------------------------------------------------------
(* Properties of TreeWalker, checked under TreeSpec *)

\* the node at a path of positions below a list of CIDs
RECURSIVE CidAt(_, _)
CidAt(ids, positions) ==
    IF Len(positions) = 1 THEN ids[Head(positions)]
    ELSE CidAt(resolve(ids[Head(positions)]).children, Tail(positions))

\* the paths of positions, below a list of CIDs, that lead through folders
\* that resolve to a document that resolves
RECURSIVE DocumentPositions(_, _)
DocumentPositions(ids, top) ==
    UNION {IF resolve(ids[i]) = Missing THEN {}
           ELSE IF resolve(ids[i]).type = "folder"
           THEN {<<i>> \o below :
                    below \in DocumentPositions(resolve(ids[i]).children, FALSE)}
           ELSE IF resolve(ids[i]).type = "document" /\ ~top THEN {<<i>>}
           ELSE {}
           : i \in DOMAIN ids}

\* the names of the folders on a path of positions, each followed by a slash
RECURSIVE EnclosingNames(_, _)
EnclosingNames(ids, positions) ==
    IF Len(positions) = 1 THEN ""
    ELSE resolve(ids[Head(positions)]).name \o "/"
         \o EnclosingNames(resolve(ids[Head(positions)]).children, Tail(positions))

\* depth-first order: p comes before q
Before(p, q) ==
    \E k \in 1..Len(p) :
        /\ k <= Len(q)
        /\ \A i \in 1..(k - 1) : p[i] = q[i]
        /\ p[k] < q[k]

\* C26: getDocuments(rootCid, resolve) returns the empty list for a root that
\* does not resolve; otherwise it returns, in depth-first order, one entry
\* for each document occurrence reached from the root through folders that
\* resolve, with the document's CID and node and with the path made of the
\* enclosing folders' names, each followed by a slash, and the document's
\* name, "Untitled" if it has none; what does not resolve is skipped.
C26_GetDocuments ==
    last.op = "getDocuments" =>
        IF resolve(last.arg.rootCid) = Missing
        THEN last.ret = <<>>
        ELSE LET content == resolve(last.arg.rootCid).content
                 occurrences == DocumentPositions(content, TRUE)
                 rank(p) == 1 + Cardinality({q \in occurrences : Before(q, p)})
             IN  /\ Len(last.ret) = Cardinality(occurrences)
                 /\ \A p \in occurrences :
                       /\ rank(p) \in DOMAIN last.ret
                       /\ last.ret[rank(p)].cid = CidAt(content, p)
                       /\ last.ret[rank(p)].doc = resolve(CidAt(content, p))
                       /\ last.ret[rank(p)].path =
                             EnclosingNames(content, p)
                             \o (IF "name" \in DOMAIN resolve(CidAt(content, p))
                                    /\ resolve(CidAt(content, p)).name # ""
                                 THEN resolve(CidAt(content, p)).name
                                 ELSE "Untitled")

\* getDocuments has listed the document a/s/x below a folder and then a/y,
\* in a tree in which a node is not stored
C26_Witness ==
    /\ last.op = "getDocuments"
    /\ Len(last.ret) >= 2
    /\ last.ret[1].path = "a/s/x"
    /\ last.ret[2].path = "a/y"
    /\ \E id \in ReachableIn(workInProgress, sourceOfTruth, workingRootCid) :
          resolve(id) = Missing

-----------------------------------------------------------------------------
(* Errors of merge, checked under Spec *)

\* a head commit of the merge of a branch into the current one does not
\* resolve
UnresolvedHead(sourceBranch) ==
    \/ resolve(HeadOf(currentBranch)) = Missing
    \/ resolve(HeadOf(sourceBranch)) = Missing

\* C27: a merge(sourceBranch) step with sourceBranch not the current branch,
\* the two heads different and a head commit that does not resolve ends in an
\* error and leaves the branch heads, the branch lists, the current branch,
\* the working root and both tiers as they were; a merge step raises in no
\* other case, whatever else below the heads does not resolve.
C27_MergeUnresolvedHead ==
    [][last'.op = "merge" =>
        /\ (/\ last'.arg.uuid # currentBranch
            /\ HeadOf(currentBranch) # HeadOf(last'.arg.uuid)
            /\ UnresolvedHead(last'.arg.uuid))
           => /\ last'.threw
              /\ UNCHANGED <<sourceOfTruth, workInProgress, heap, branches,
                             archivedBranches, defaultBranch, currentBranch,
                             workingRootCid>>
        /\ last'.threw
           => /\ last'.arg.uuid # currentBranch
              /\ HeadOf(currentBranch) # HeadOf(last'.arg.uuid)
              /\ UnresolvedHead(last'.arg.uuid)]_vars

\* a merge of a branch whose head does not resolve has raised, with nodes in
\* the working tier and on an edited working root
C27_Witness ==
    /\ last.op = "merge"
    /\ last.threw
    /\ resolve(HeadOf(last.arg.uuid)) = Missing
    /\ resolve(HeadOf(currentBranch)) # Missing
    /\ workInProgress # EmptyStore
    /\ workingRootCid # resolve(HeadOf(currentBranch)).content

-----------------------------------------------------------------------------
(* The order of a merged child list, checked under MergeSpec *)

\* the positions at which a list of CIDs names a child name for the first time
FirstOf(ids) ==
    {i \in Stored(ids) : \A j \in Stored(ids) : j < i => NameOf(ids[j]) # NameOf(ids[i])}

\* the child names of a side, in the side's order
NameOrder(ids) ==
    [k \in 1..Cardinality(FirstOf(ids)) |->
        NameOf(ids[CHOOSE i \in FirstOf(ids) :
                      Cardinality({j \in FirstOf(ids) : j <= i}) = k])]

\* the names the merged list is to hold, in order: those of the current
\* side, then those only the source side has
MergedNameOrder(currentIds, sourceIds) ==
    NameOrder(currentIds)
    \o SelectSeq(NameOrder(sourceIds), LAMBDA name : name \notin NamesIn(currentIds))

\* the merged list holds the entries in that order, and so do the lists of
\* the folders merged below it
RECURSIVE OrderedIn(_, _, _)
OrderedIn(currentIds, sourceIds, mergedIds) ==
    LET names == MergedNameOrder(currentIds, sourceIds)
    IN  /\ Len(mergedIds) = Len(names)
        /\ \A k \in DOMAIN names :
              /\ k \in Stored(mergedIds)
              /\ NameOf(mergedIds[k]) = names[k]
              /\ IF names[k] \notin NamesIn(sourceIds)
                 THEN mergedIds[k] = EntryOf(currentIds, names[k])
                 ELSE IF names[k] \notin NamesIn(currentIds)
                 THEN mergedIds[k] = EntryOf(sourceIds, names[k])
                 ELSE IF BothFolders(EntryOf(currentIds, names[k]),
                                     EntryOf(sourceIds, names[k]))
                 THEN OrderedIn(NodeAt(EntryOf(currentIds, names[k])).children,
                                NodeAt(EntryOf(sourceIds, names[k])).children,
                                NodeAt(mergedIds[k]).children)
                 ELSE mergedIds[k] = EntryOf(sourceIds, names[k])

\* C28: merge ordering.  For every merge commit, the content of the merged
\* root holds first one entry per directory name of the current root, in the
\* current root's order (kept, merged with the source's directory of that
\* name, or replaced by the source's entry), then the entries whose names
\* only the source root has, in the source root's order; and so does the
\* child list of every directory merged below it.
C28_MergeOrder ==
    \A id \in MergeCommits :
        OrderedIn(NodeAt(CurrentRootOf(id)).content,
                  NodeAt(SourceRootOf(id)).content,
                  NodeAt(MergedRootOf(id)).content)

-----------------------------------------------------------------------------
(* The merge of what does not resolve, checked under LostSpec *)

\* the CIDs of the folders a store holds
FoldersOf(store) == {id \in DOMAIN store : store[id].type = "folder"}

\* the CIDs of the model's directories that the tiers do not hold
LostFolders == {cid(dir) : dir \in TopDirs \cup {SubX1, SubX2, SubY, FolderX}}
               \ (DOMAIN sourceOfTruth \cup DOMAIN workInProgress)

\* C29: a merge step that commits takes as merged root the source root's CID
\* if only the current root does not resolve, the current root's CID if only
\* the source root does not resolve, and the CID of an empty GrammarRoot,
\* stored in source-of-truth, if neither resolves; mergeDirectories, given a
\* directory CID that does not resolve, returns the other side's CID (the
\* source's if neither resolves) and stores nothing.
C29_MergeMissing ==
    [][(/\ last'.op = "merge"
        /\ ~last'.threw
        /\ ~isNoopMerge(last'.arg.uuid))
       => LET currentRoot == resolve(HeadOf(currentBranch)).content
              sourceRoot == resolve(HeadOf(last'.arg.uuid)).content
              mergedRoot == sourceOfTruth'[heap'[currentBranch].commit].content
          IN  /\ workingRootCid' = mergedRoot
              /\ (resolve(currentRoot) = Missing /\ resolve(sourceRoot) # Missing)
                    => mergedRoot = sourceRoot
              /\ (resolve(currentRoot) # Missing /\ resolve(sourceRoot) = Missing)
                    => mergedRoot = currentRoot
              /\ (resolve(currentRoot) = Missing /\ resolve(sourceRoot) = Missing)
                    => /\ mergedRoot = cid(GrammarRoot(<<>>))
                       /\ KVhas(sourceOfTruth', mergedRoot)
                       /\ sourceOfTruth'[mergedRoot] = GrammarRoot(<<>>)
              /\ \A id \in {currentRoot, sourceRoot} :
                    resolve(id) = Missing => ~KVhas(sourceOfTruth', id)
              /\ \A lostCid \in LostFolders :
                    /\ \A dirCid \in FoldersOf(sourceOfTruth) :
                          /\ mergeDirectories(lostCid, dirCid, workInProgress, sourceOfTruth)
                                = [cid |-> dirCid, sot |-> sourceOfTruth]
                          /\ mergeDirectories(dirCid, lostCid, workInProgress, sourceOfTruth)
                                = [cid |-> dirCid, sot |-> sourceOfTruth]
                    /\ \A otherCid \in LostFolders :
                          mergeDirectories(lostCid, otherCid, workInProgress, sourceOfTruth)
                             = [cid |-> otherCid, sot |-> sourceOfTruth]]_vars

\* a merge has committed the source's root [a] as the merged root: the
\* current branch's root [b] is in no tier, though its directory b is stored
C29_Witness ==
    /\ last.op = "merge"
    /\ ~last.threw
    /\ Len(CommitAt(HeadOf(currentBranch)).parents) = 2
    /\ CommitAt(CommitAt(HeadOf(currentBranch)).parents[1]).content =
          cid(GrammarRoot(<<cid(Directory("b", <<cid(DocY)>>))>>))
    /\ CommitAt(CommitAt(HeadOf(currentBranch)).parents[2]).content =
          cid(GrammarRoot(<<cid(Directory("a", <<cid(DocX1)>>))>>))
    /\ ~KVhas(sourceOfTruth, cid(GrammarRoot(<<cid(Directory("b", <<cid(DocY)>>))>>)))
    /\ KVhas(sourceOfTruth, cid(Directory("b", <<cid(DocY)>>)))
    /\ CommitAt(HeadOf(currentBranch)).content =
          cid(GrammarRoot(<<cid(Directory("a", <<cid(DocX1)>>))>>))
    /\ workingRootCid = CommitAt(HeadOf(currentBranch)).content
    /\ KVhas(sourceOfTruth, workingRootCid)

-----------------------------------------------------------------------------
(* Where a merge stores what it makes, checked under LostSpec *)

\* the key a child of a side is merged under, as the tiers resolve it
KeyIn(wip, sot, id, top) ==
    IF top THEN resolveIn(wip, sot, id).name ELSE ChildName(resolveIn(wip, sot, id))

\* the positions of a side's list that take part in a merge
KeyedIn(wip, sot, ids, top) ==
    {i \in DOMAIN ids :
        /\ resolveIn(wip, sot, ids[i]) # Missing
        /\ top => HasName(resolveIn(wip, sot, ids[i]))}

\* the entry of a side for a key: its last child of that key
LastIn(wip, sot, ids, top, key) ==
    ids[CHOOSE i \in KeyedIn(wip, sot, ids, top) :
            /\ KeyIn(wip, sot, ids[i], top) = key
            /\ \A j \in KeyedIn(wip, sot, ids, top) :
                  KeyIn(wip, sot, ids[j], top) = key => j <= i]

\* the keys for which merge makes a directory out of the entries of both sides
MergedKeys(wip, sot, currentIds, sourceIds, top) ==
    {key \in {KeyIn(wip, sot, currentIds[i], top) : i \in KeyedIn(wip, sot, currentIds, top)}
             \cap {KeyIn(wip, sot, sourceIds[i], top) : i \in KeyedIn(wip, sot, sourceIds, top)} :
        top \/ (/\ resolveIn(wip, sot, LastIn(wip, sot, currentIds, top, key)).type = "folder"
                /\ resolveIn(wip, sot, LastIn(wip, sot, sourceIds, top, key)).type = "folder")}

\* every directory made for a key of both sides is held by the store `after`
\* under the CID the merged list names, and so are the directories made
\* below it
RECURSIVE MadeStored(_, _, _, _, _, _, _)
MadeStored(wip, sot, after, currentIds, sourceIds, mergedIds, top) ==
    \A key \in MergedKeys(wip, sot, currentIds, sourceIds, top) :
        /\ \E k \in DOMAIN mergedIds :
              /\ KVhas(after, mergedIds[k])
              /\ after[mergedIds[k]].type = "folder"
              /\ "name" \in DOMAIN after[mergedIds[k]]
              /\ after[mergedIds[k]].name = key
        /\ \A k \in DOMAIN mergedIds :
              (/\ KVhas(after, mergedIds[k])
               /\ after[mergedIds[k]].type = "folder"
               /\ "name" \in DOMAIN after[mergedIds[k]]
               /\ after[mergedIds[k]].name = key)
              => MadeStored(wip, sot, after,
                            ChildrenOf(resolveIn(wip, sot,
                                                 LastIn(wip, sot, currentIds, top, key))),
                            ChildrenOf(resolveIn(wip, sot,
                                                 LastIn(wip, sot, sourceIds, top, key))),
                            after[mergedIds[k]].children, FALSE)

\* a merge step of a branch into the current one that commits
MergeCommitsStep ==
    /\ last'.op = "merge"
    /\ ~last'.threw
    /\ ~isNoopMerge(last'.arg.uuid)

\* the directories a merge step makes are held by source-of-truth afterwards
MergedDirectoriesStored ==
    LET currentRoot == resolve(HeadOf(currentBranch)).content
        sourceRoot == resolve(HeadOf(last'.arg.uuid)).content
    IN  (resolve(currentRoot) # Missing /\ resolve(sourceRoot) # Missing)
        => MadeStored(workInProgress, sourceOfTruth, sourceOfTruth',
                      resolve(currentRoot).content,
                      resolve(sourceRoot).content,
                      sourceOfTruth'[workingRootCid'].content, TRUE)

\* C30 as stated: after a merge step that commits, the working tier is empty
\* and the merged root resolves from source-of-truth, and so does every
\* directory the merge made for a name of both sides, at every depth.
C30_MergedStored_AsStated ==
    [][MergeCommitsStep
       => /\ workInProgress' = EmptyStore
          /\ workingRootCid' = sourceOfTruth'[heap'[currentBranch].commit].content
          /\ KVhas(sourceOfTruth', workingRootCid')
          /\ sourceOfTruth'[workingRootCid'].type = "grammar_root"
          /\ MergedDirectoriesStored]_vars

\* C30, amended: after a merge step that commits, the working tier is empty;
\* a merged root that the merge synthesized (both roots resolve, or neither)
\* resolves from source-of-truth, and so does every directory the merge made
\* for a name of both sides, at every depth; a root returned unchanged
\* because only it resolves is not stored by the merge, and resolves
\* afterwards exactly when source-of-truth held it before.
C30_MergedStored ==
    [][MergeCommitsStep
       => LET currentRoot == resolve(HeadOf(currentBranch)).content
              sourceRoot == resolve(HeadOf(last'.arg.uuid)).content
          IN  /\ workInProgress' = EmptyStore
              /\ workingRootCid' = sourceOfTruth'[heap'[currentBranch].commit].content
              /\ IF (resolve(currentRoot) = Missing) = (resolve(sourceRoot) = Missing)
                 THEN /\ KVhas(sourceOfTruth', workingRootCid')
                      /\ sourceOfTruth'[workingRootCid'].type = "grammar_root"
                      /\ MergedDirectoriesStored
                 ELSE /\ workingRootCid' \in {currentRoot, sourceRoot}
                      /\ resolve(workingRootCid') # Missing
                      /\ KVhas(sourceOfTruth', workingRootCid')
                            <=> KVhas(sourceOfTruth, workingRootCid')]_vars

\* a merge has made the directory a = [x, s] out of the current side's
\* a = [x], held by the working tier only, and the source side's a = [s],
\* and source-of-truth holds the merged directory and the merged root
C30_Witness ==
    /\ last.op = "merge"
    /\ ~last.threw
    /\ workInProgress = EmptyStore
    /\ workingRootCid = cid(GrammarRoot(<<cid(Directory("a", <<cid(DocX1), cid(SubX2)>>))>>))
    /\ KVhas(sourceOfTruth, workingRootCid)
    /\ KVhas(sourceOfTruth, cid(Directory("a", <<cid(DocX1), cid(SubX2)>>)))
    /\ ~KVhas(sourceOfTruth, cid(Directory("a", <<cid(DocX1)>>)))
    /\ CommitAt(HeadOf(currentBranch)).content = workingRootCid

-----------------------------------------------------------------------------
(* Properties of HistoryView's order, checked under HistorySpec *)

\* the entries of a returned history are in topological order: no entry is
\* preceded by one of its parents
TopologicalOrder(result) ==
    \A i \in DOMAIN result : \A j \in DOMAIN result :
        result[j].cid \in Range(result[i].commit.parents) => i < j

\* C31: getCommitHistory returns commits in topological order, newest first:
\* every parent of a returned commit that is also returned appears later in
\* the list than the commit, for every commit graph and every assignment of
\* timestamps the engine can produce, equal timestamps included.
C31_TopologicalOrder ==
    last.op = "getCommitHistory" => TopologicalOrder(last.ret)

-----------------------------------------------------------------------------
(* Properties of the branch sets, checked under Spec *)

\* a call of commit or of merge, with any arguments
CommitOrMerge ==
    \/ \E message \in Messages, author \in Authors : commit(message, author)
    \/ \E sourceBranch \in DOMAIN heap : merge(sourceBranch)

\* nothing of the branches changes but the head of the current branch
OnlyCurrentHeadMoves ==
    /\ DOMAIN heap' = DOMAIN heap
    /\ \A b \in DOMAIN heap \ {currentBranch} : heap'[b] = heap[b]
    /\ heap'[currentBranch].name = heap[currentBranch].name
    /\ branches' = branches
    /\ archivedBranches' = archivedBranches
    /\ defaultBranch' = defaultBranch
    /\ currentBranch' = currentBranch

\* C32: commit and merge change the head of the current branch only: the
\* head of every other live or archived branch, the merge's source branch
\* included, is the same after the call as before, and the live and archived
\* branch sets and the identity of the current branch are unchanged.
C32_OnlyCurrentHeadMoves ==
    [][CommitOrMerge => OnlyCurrentHeadMoves]_vars

\* a merge has made a merge commit on the current branch while the source
\* branch and an archived branch keep the heads they had
C32_Witness ==
    /\ last.op = "merge"
    /\ ~last.threw
    /\ last.arg.uuid # currentBranch
    /\ KVhas(sourceOfTruth, HeadOf(currentBranch))
    /\ Len(CommitAt(HeadOf(currentBranch)).parents) = 2
    /\ CommitAt(HeadOf(currentBranch)).parents[2] = HeadOf(last.arg.uuid)
    /\ archivedBranches # <<>>

\* C33: in every reachable state the current branch is a member of the live
\* branch set and never an archived branch, for every sequence of
\* createBranch, checkout, archiveBranch, commit and merge calls, with
\* archiveBranch applied to the current branch and checkout applied to an
\* archived branch among them.
C33_CurrentBranchLive ==
    /\ currentBranch \in Range(branches)
    /\ currentBranch \notin Range(archivedBranches)

-----------------------------------------------------------------------------
(* Properties of the heads, checked under HeadsSpec *)

\* the working root resolves, and every live branch head resolves from
\* source-of-truth to a Commit whose content resolves from source-of-truth
HeadsResolve ==
    /\ resolve(workingRootCid) # Missing
    /\ \A i \in DOMAIN branches :
          /\ KVhas(sourceOfTruth, HeadOf(branches[i]))
          /\ CommitAt(HeadOf(branches[i])).type = "commit"
          /\ KVhas(sourceOfTruth, CommitAt(HeadOf(branches[i])).content)

\* C34 as stated: provided setWorkingRoot is only called with a CID that
\* resolves and createBranch's fromCommit is always the CID of a commit
\* already in source-of-truth, in every reachable state the working root
\* resolves, every live branch head resolves from source-of-truth to a
\* Commit, and the content of every head's commit resolves from
\* source-of-truth.
C34_HeadsResolve_AsStated == HeadsResolve

\* a call that keeps the amended proviso: setWorkingRoot with a CID that
\* resolves, createBranch with no fromCommit or with a commit the engine
\* made, and any other call
ProvidedCall ==
    \/ \E node \in PutNodes \cup {ForgedCommit} : put(node)
    \/ \E root \in RootNodes : setRoot(root)
    \/ \E root \in RootNodes :
          resolve(cid(root)) # Missing /\ setWorkingRoot(cid(root))
    \/ \E message \in Messages, author \in Authors : commit(message, author)
    \/ \E branch \in DOMAIN heap : checkout(branch)
    \/ \E carry \in BOOLEAN, from \in {NoCommit} \cup EngineCommits :
          createBranch("feature", from, carry)
    \/ \E sourceBranch \in DOMAIN heap : merge(sourceBranch)

\* what the calls keep while the proviso is kept: the working root and the
\* heads resolve, and so does the content of every commit the engine made
EngineCommitsResolve ==
    /\ HeadsResolve
    /\ \A c \in EngineCommits : KVhas(sourceOfTruth, CommitAt(c).content)

\* C34, amended: provided setWorkingRoot is only called with a CID that
\* resolves and createBranch's fromCommit is always a commit the engine made
\* (never a Commit the caller put), the working root resolves, every live
\* branch head resolves from source-of-truth to a Commit, and the content of
\* every head's commit resolves from source-of-truth.  It holds after
\* construction and every call that keeps the proviso preserves it.
C34_HeadsResolve ==
    /\ EngineCommitsResolve
    /\ [][(EngineCommitsResolve /\ ProvidedCall) => EngineCommitsResolve']_vars

\* a merge has been made between two branches while a Commit put by the
\* caller lies in source-of-truth, and the heads still resolve
C34_Witness ==
    /\ last.op = "merge"
    /\ ~last.threw
    /\ KVhas(sourceOfTruth, cid(ForgedCommit))
    /\ Cardinality(Range(branches)) = 2
    /\ Len(CommitAt(HeadOf(currentBranch)).parents) = 2
    /\ workingRootCid # cid(initialGrammarRoot)
    /\ EngineCommitsResolve

\* no commit in source-of-truth is reachable from its own parents
Acyclic ==
    \A c \in Commits(sourceOfTruth) : c \notin Ancestry(ParentSet(c), {})

\* the commit graph as the engine builds it: acyclic, the parents of every
\* commit the engine made are commits the engine made, every such commit
\* and every head descends from the initial commit, and two live branches
\* always have a common ancestor
GraphSound ==
    /\ Acyclic
    /\ \A c \in EngineCommits :
          /\ ParentSet(c) \subseteq EngineCommits
          /\ cid(initialCommit) \in AncestryOf(c)
    /\ \A b \in DOMAIN heap : HeadOf(b) \in EngineCommits
    /\ \A i \in DOMAIN branches, j \in DOMAIN branches :
          findCommonAncestor(branches[i], branches[j]) # Null

\* C35: provided createBranch's fromCommit is always the CID of a commit
\* created by the engine, in every reachable state the commit graph in
\* source-of-truth is acyclic, every parent CID of every engine-created
\* commit resolves to a commit, and every live branch head has the initial
\* zero-parent commit as an ancestor, so findCommonAncestor applied to any
\* two live branches never returns null.  It holds after construction and
\* every call with such a fromCommit preserves it.
C35_GraphSound ==
    /\ GraphSound
    /\ [][(GraphSound /\ ProvidedCall) => GraphSound']_vars

\* the default branch has merged a branch that is one commit ahead of the
\* initial commit, a Commit put by the caller lies in source-of-truth, the
\* graph is as the engine builds it and the search answers the initial commit
C35_Witness ==
    /\ GraphSound
    /\ KVhas(sourceOfTruth, cid(ForgedCommit))
    /\ Len(branches) = 2
    /\ Len(CommitAt(HeadOf(branches[1])).parents) = 2
    /\ CommitAt(HeadOf(branches[2])).parents = <<cid(initialCommit)>>
    /\ HeadOf(branches[2]) \in Range(CommitAt(HeadOf(branches[1])).parents)
    /\ findCommonAncestor(branches[1], branches[2]) = cid(initialCommit)

-----------------------------------------------------------------------------
(* Properties of a repeated merge, checked under RemergeSpec *)

\* source wins in every top-level directory that the two roots of a merge
\* commit both name
SourceWinsAt(id) ==
    LET currentIds == NodeAt(CurrentRootOf(id)).content
        sourceIds == NodeAt(SourceRootOf(id)).content
        mergedIds == NodeAt(MergedRootOf(id)).content
    IN  \A name \in TopNamesIn(currentIds) \cap TopNamesIn(sourceIds) :
            /\ Cardinality(PositionsOf(mergedIds, name)) = 1
            /\ KVhas(sourceOfTruth, EntryOf(mergedIds, name))
            /\ SourceWinsIn(EntryOf(currentIds, name), EntryOf(sourceIds, name),
                            EntryOf(mergedIds, name))

\* the step made a new commit on the current branch, with the prior head and
\* the source head as parents and the source-wins merge of their roots as
\* content
MergedAnew(sourceBranch) ==
    LET prior == HeadOf(currentBranch)
        made == heap'[currentBranch].commit
    IN  /\ ~last'.threw
        /\ ~KVhas(sourceOfTruth, made)
        /\ KVhas(sourceOfTruth', made)
        /\ sourceOfTruth'[made].type = "commit"
        /\ sourceOfTruth'[made].parents = <<prior, HeadOf(sourceBranch)>>
        /\ workingRootCid' = sourceOfTruth'[made].content
        /\ KVhas(sourceOfTruth', workingRootCid')
        /\ SourceWinsAt(HeadOf(currentBranch))'
        /\ (CommitAt(prior).content = cid(NewerRoot)
               /\ CommitAt(HeadOf(sourceBranch)).content = cid(OlderRoot))
              => workingRootCid' = cid(OlderRoot)

\* C36 as stated: merge never fast-forwards and never detects an
\* already-merged source: whenever the source branch differs from the
\* current branch and the two heads differ, merge creates a new two-parent
\* commit and applies the source-wins tree merge against the source head's
\* tree, regardless of ancestry.
C36_NoFastForward_AsStated ==
    [][\A sourceBranch \in DOMAIN heap :
          (/\ merge(sourceBranch)
           /\ sourceBranch # currentBranch
           /\ HeadOf(sourceBranch) # HeadOf(currentBranch))
             => MergedAnew(sourceBranch)]_vars

\* C36, amended: whenever the source branch differs from the current
\* branch, the two heads differ and both head commits resolve, merge creates
\* a new two-parent commit and applies the source-wins tree merge against
\* the source head's tree, regardless of ancestry: also when the source head
\* is already an ancestor of the current head (a document changed on the
\* current branch after an earlier merge of the same source is replaced by
\* the source's older version) and when the current head is an ancestor of
\* the source head.
C36_NoFastForward ==
    [][\A sourceBranch \in DOMAIN heap :
          (/\ merge(sourceBranch)
           /\ sourceBranch # currentBranch
           /\ HeadOf(sourceBranch) # HeadOf(currentBranch)
           /\ resolve(HeadOf(currentBranch)) # Missing
           /\ resolve(HeadOf(sourceBranch)) # Missing)
             => MergedAnew(sourceBranch)]_vars

\* the source, already merged once, has been merged again after the current
\* branch committed the newer document: the second merge commit holds the
\* source's older document
C36_Witness ==
    /\ last.op = "merge"
    /\ ~last.threw
    /\ KVhas(sourceOfTruth, HeadOf(currentBranch))
    /\ Len(CommitAt(HeadOf(currentBranch)).parents) = 2
    /\ LET prior == CommitAt(HeadOf(currentBranch)).parents[1]
           source == CommitAt(HeadOf(currentBranch)).parents[2]
       IN  /\ source = HeadOf(last.arg.uuid)
           /\ source \in AncestryOf(prior)
           /\ CommitAt(prior).content = cid(NewerRoot)
           /\ CommitAt(source).content = cid(OlderRoot)
           /\ workingRootCid = cid(OlderRoot)

\* the current head was an ancestor of the source head, and merge made a
\* merge commit all the same
C36_AncestorWitness ==
    /\ last.op = "merge"
    /\ ~last.threw
    /\ KVhas(sourceOfTruth, HeadOf(currentBranch))
    /\ Len(CommitAt(HeadOf(currentBranch)).parents) = 2
    /\ CommitAt(HeadOf(currentBranch)).parents[1]
          \in AncestryOf(CommitAt(HeadOf(currentBranch)).parents[2])

-----------------------------------------------------------------------------
(* Properties of what a merge keeps, checked under MergeSpec *)

\* the name a side's child goes by: its own at the top level, and below it
\* "untitled" for a document that has none
NameAt(id, top) == IF top THEN NodeAt(id).name ELSE NameOf(id)

\* every stored child of the current side whose name the source side does
\* not hold is in the merged list with its own CID, here and in the folders
\* merged below
RECURSIVE KeptIn(_, _, _, _)
KeptIn(currentIds, sourceIds, mergedIds, top) ==
    LET sourceNames == {NameAt(sourceIds[j], top) : j \in Stored(sourceIds)}
        shared == {NameAt(currentIds[i], top) : i \in Stored(currentIds)}
                     \cap sourceNames \cap {NameAt(mergedIds[k], top) : k \in Stored(mergedIds)}
        lastOf(ids, name) ==
            ids[CHOOSE i \in Stored(ids) :
                    /\ NameAt(ids[i], top) = name
                    /\ \A j \in Stored(ids) : NameAt(ids[j], top) = name => j <= i]
    IN  /\ \A i \in Stored(currentIds) :
              NameAt(currentIds[i], top) \notin sourceNames
                 => \E k \in DOMAIN mergedIds : mergedIds[k] = currentIds[i]
        /\ \A name \in shared :
              BothFolders(lastOf(currentIds, name), lastOf(sourceIds, name))
                 => KeptIn(NodeAt(lastOf(currentIds, name)).children,
                           NodeAt(lastOf(sourceIds, name)).children,
                           NodeAt(lastOf(mergedIds, name)).children, FALSE)

\* C37: merge never drops an entry of the current side that the source side
\* does not name: for every merged directory and for the root, every
\* resolvable child of the current side whose name does not occur among the
\* source side's children appears with its own CID in the merged child
\* list, also when the current side holds several children with the same
\* name, a document without a name, or a top-level directory with an empty
\* name.
C37_MergeKeepsCurrent ==
    \A id \in MergeCommits :
        KVhas(sourceOfTruth, MergedRootOf(id)) =>
            KeptIn(NodeAt(CurrentRootOf(id)).content,
                   NodeAt(SourceRootOf(id)).content,
                   NodeAt(MergedRootOf(id)).content, TRUE)

-----------------------------------------------------------------------------
(* Properties of a failing checkout, checked under Spec *)

\* C38: checkout is all-or-nothing: if the given branch's head commit does
\* not resolve, checkout fails and leaves the working tier, the current
\* branch and the working root exactly as they were before the call.
C38_CheckoutAllOrNothing ==
    [][\A branch \in DOMAIN heap :
          (checkout(branch) /\ ~KVhas(sourceOfTruth, HeadOf(branch)))
             => /\ last'.threw
                /\ UNCHANGED <<workInProgress, currentBranch, workingRootCid>>]_vars

-----------------------------------------------------------------------------
(* Termination of HistoryView, checked under WalkSpec *)

\* C39: findCommonAncestor, isAncestor and getCommitHistory terminate on
\* every finite acyclic commit graph, also on graphs with merge commits in
\* which a commit is reachable along several parent paths and on graphs
\* with parent CIDs that do not resolve: a call that is inside its loop
\* leaves it.
C39_WalksTerminate == Walking ~> ~Walking

\* getCommitHistory has returned, with no limit reached, from a graph in
\* which a commit is a parent of a merge commit and an ancestor of its other
\* parent, and in which a parent CID does not resolve
C39_Witness ==
    /\ last.op = "getCommitHistory"
    /\ last.arg.pc = "done"
    /\ last.arg.maxDepth = DefaultMaxDepth
    /\ last.arg.queue = <<>>
    /\ DanglingCommit \in last.arg.visited
    /\ \E m \in last.arg.visited :
          /\ resolve(m) # Missing
          /\ Len(resolve(m).parents) = 2
          /\ resolve(m).parents[1] \in AncestryOf(resolve(m).parents[2])

====
